---- MODULE Spec2Model ----
(***************************************************************************)
(* Model of the PowerPC MMU facade of Source/Core/Core/PowerPC/MMU.h:      *)
(* the host access functions (HostRead, HostTryRead, HostWrite,            *)
(* HostTryWrite), the guest access functions (Read, Write), the BAT        *)
(* tables and the address translator they rest on.                         *)
(*                                                                         *)
(* TLC integers are 32-bit signed, so a u32 is held as a pair of 16-bit    *)
(* limbs <<hi, lo>> and a value of 1, 2, 4 or 8 bytes as the sequence of   *)
(* its bytes' 16-bit limbs, most significant first (u8 and u16: one limb,  *)
(* u32: two, u64: four).  Guest memory is an array of bytes.               *)
(***************************************************************************)
EXTENDS Integers, Sequences, FiniteSets, TLC

\* ------------------------------------------------------------------ u32
LIMB == 2 ^ 16

RECURSIVE BitAnd(_, _)
BitAnd(a, b) ==
  IF a = 0 \/ b = 0 THEN 0
  ELSE (a % 2) * (b % 2) + 2 * BitAnd(a \div 2, b \div 2)

RECURSIVE BitOr(_, _)
BitOr(a, b) ==
  IF a = 0 THEN b
  ELSE IF b = 0 THEN a
  ELSE (IF a % 2 = 1 \/ b % 2 = 1 THEN 1 ELSE 0) + 2 * BitOr(a \div 2, b \div 2)

RECURSIVE BitXor(_, _)
BitXor(a, b) ==
  IF a = 0 THEN b
  ELSE IF b = 0 THEN a
  ELSE (IF a % 2 = b % 2 THEN 0 ELSE 1) + 2 * BitXor(a \div 2, b \div 2)

\* a u32 from a number below 2^31
ToU32(n) == <<n \div LIMB, n % LIMB>>
\* u32 & u32, u32 | u32
And32(a, b) == <<BitAnd(a[1], b[1]), BitAnd(a[2], b[2])>>
Or32(a, b) == <<BitOr(a[1], b[1]), BitOr(a[2], b[2])>>
\* u32 + n, wrapping at 2^32 (n a small number)
Add32(a, n) ==
  LET lo == a[2] + n
  IN  <<(a[1] + lo \div LIMB) % LIMB, lo % LIMB>>
\* u32 >> k, for 1 <= k <= 31 (the result fits a number)
Shr32(a, k) ==
  IF k >= 16 THEN a[1] \div (2 ^ (k - 16))
  ELSE a[1] * (2 ^ (16 - k)) + a[2] \div (2 ^ k)
\* u32 < u32
Lt32(a, b) == a[1] < b[1] \/ (a[1] = b[1] /\ a[2] < b[2])

\* ------------------------------------------------------------ constants
BAT_INDEX_SHIFT == 17
BAT_PAGE_SIZE == 2 ^ BAT_INDEX_SHIFT
BAT_PAGE_COUNT == 2 ^ (32 - BAT_INDEX_SHIFT)
BAT_MAPPED_BIT == 1
BAT_PHYSICAL_BIT == 2
BAT_WI_BIT == 4
\* a result mask that keeps the write-inhibited bit: UINT32_C(~0x3)
BAT_RESULT_MASK_KeepsWI == <<65535, 65532>>
\* UINT32_C(~0x7)
BAT_RESULT_MASK == <<65535, 65528>>

HW_PAGE_SIZE == 4096
HW_PAGE_INDEX_SHIFT == 12

\* enum class RequestedAddressSpace
RequestedAddressSpace == {"Effective", "Physical", "Virtual"}
\* enum class XCheckTLBFlag
XCheckTLBFlag == {"NoException", "Read", "Write", "Opcode", "OpcodeNoException"}
\* enum class TranslateAddressResultEnum, in declaration order
BAT_TRANSLATED == 0
PAGE_TABLE_TRANSLATED == 1
DIRECT_STORE_SEGMENT == 2
PAGE_FAULT == 3

\* Success() that takes a direct-store segment for a translated address
Success_DirectStoreOk(r) == r.result <= DIRECT_STORE_SEGMENT

\* TranslateAddressResult::Success
Success(r) == r.result <= PAGE_TABLE_TRANSLATED

\* union EffectiveAddress: BitField<position, bits, u32>
BitField(pos, bits, a) ==
  IF pos = 0 THEN a[2] % (2 ^ bits) ELSE Shr32(a, pos) % (2 ^ bits)
EA_offset(a) == BitField(0, 12, a)
EA_page_index(a) == BitField(12, 16, a)
EA_API(a) == BitField(22, 6, a)
EA_SR(a) == BitField(28, 4, a)

\* ------------------------------------------------- sampled address space
\* The guest addresses the operations are applied to (effective or physical,
\* as the operation takes them):
\*   0x00001000  RAM when taken as physical; page-table translated when DR is on
\*   0x80001000  inside the BAT page 0x80000000-0x8001FFFF
\*   0x8001FFFC  last word of that BAT page (A+4 is in the next BAT page)
\*   0xFFFFFFFC  A+4 wraps to 0x00000000
\*   0x0C000000  memory-mapped I/O when taken as physical
\*   0xA0000000  in the direct-store segment 0xA
A_RAM == <<0, 4096>>
A_BAT == <<32768, 4096>>
A_EDGE == <<32769, 65532>>
A_WRAP == <<65535, 65532>>
A_MMIO == <<3072, 0>>
A_DS == <<40960, 0>>
Addresses == {A_RAM, A_BAT, A_EDGE, A_WRAP, A_MMIO, A_DS}

\* the entries of a BatTable the sampled addresses (and A+4) index
BatPages == {Shr32(a, BAT_INDEX_SHIFT) : a \in Addresses}
              \cup {Shr32(Add32(a, 4), BAT_INDEX_SHIFT) : a \in Addresses}

\* the bytes of RAM the sampled addresses can resolve to
RamCells ==
  {<<0, x>> : x \in 0..7} \cup {<<0, 4096 + x>> : x \in 0..7}
    \cup {<<1, 65532 + x>> : x \in 0..3} \cup {<<2, x>> : x \in 0..7}

\* Memory manager: physical RAM is 0x00000000-0x017FFFFF
RAM_SIZE == <<384, 0>>
IsRAM(pa) == Lt32(pa, RAM_SIZE)
\* Memory manager: IsMMIOAddress, 0x0C000000-0x0C7FFFFF
IsMMIOAddress(pa) == pa[1] >= 3072 /\ pa[1] < 3200

\* ------------------------------------------------------------ BAT tables
\* A BAT register pair: valid bit, block effective page index, block-length
\* mask, block physical page number (all in 128 KiB pages) and W|I.
BatReg(v, bepi, bl, brpn, wi) ==
  [V |-> v, BEPI |-> bepi, BL |-> bl, BRPN |-> brpn, WI |-> wi]
BAT_OFF == BatReg(FALSE, 0, 0, 0, FALSE)
BatConfigs ==
  { <<BAT_OFF, BAT_OFF>>,
    \* 0x80000000-0x8001FFFF -> physical 0x00000000
    <<BatReg(TRUE, 16384, 0, 0, FALSE), BAT_OFF>>,
    \* 0x80020000-0x8003FFFF -> physical 0x00020000
    <<BAT_OFF, BatReg(TRUE, 16385, 0, 1, FALSE)>>,
    \* 0x80000000-0x8003FFFF -> physical 0x00000000, write-through
    <<BatReg(TRUE, 16384, 1, 0, TRUE), BAT_OFF>> }

SetMin(S) == CHOOSE x \in S : \A y \in S : x <= y

\* the table entry of BAT page p under the register pairs regs
BatEntry(regs, p) ==
  LET hits == {i \in DOMAIN regs :
                 regs[i].V /\ BitAnd(p, (BAT_PAGE_COUNT - 1) - regs[i].BL) = regs[i].BEPI}
  IN  IF hits = {} THEN <<0, 0>>
      ELSE LET b == regs[SetMin(hits)]
               page == BitOr(b.BRPN, BitAnd(p, b.BL))
               pa == <<(page * 2) % LIMB, 0>>
           IN  Or32(pa, ToU32(BitOr(BAT_MAPPED_BIT,
                                BitOr(IF IsRAM(pa) THEN BAT_PHYSICAL_BIT ELSE 0,
                                      IF b.WI THEN BAT_WI_BIT ELSE 0))))

\* the register pairs of regs that cover BAT page p
BatCovers(regs, p) ==
  {i \in DOMAIN regs :
     regs[i].V /\ BitAnd(p, (BAT_PAGE_COUNT - 1) - regs[i].BL) = regs[i].BEPI}

\* MMU::UpdateBATs(bat_table, base_spr): the entries of the pages the
\* register pairs cover are written into the table, the others are left
UpdateBATs(bat_table, regs) ==
  [p \in DOMAIN bat_table |->
     IF BatCovers(regs, p) = {} THEN bat_table[p] ELSE BatEntry(regs, p)]

\* the entry the fake-MMU mode gives page p: mapped onto itself
FakeEntry(p) ==
  Or32(<<(p * 2) % LIMB, 0>>,
       ToU32(BitOr(BAT_MAPPED_BIT,
                   IF IsRAM(<<(p * 2) % LIMB, 0>>) THEN BAT_PHYSICAL_BIT ELSE 0)))

\* MMU::UpdateFakeMMUBat(bat_table, start_addr): every page from start_addr
\* on is mapped onto itself
UpdateFakeMMUBat(bat_table, start_addr) ==
  [p \in DOMAIN bat_table |->
     IF p >= start_addr[1] \div 2 THEN FakeEntry(p) ELSE bat_table[p]]

\* m_dbat_table = {} : every entry unmapped
ClearedBatTable(bat_table) == [p \in DOMAIN bat_table |-> <<0, 0>>]

\* the second half of a rebuild: the cleared table refilled from the register
\* pairs, and in fake-MMU mode mapped onto itself throughout
BATRefilled(bat_table, regs, fake) ==
  IF fake THEN UpdateFakeMMUBat(UpdateBATs(bat_table, regs), <<0, 0>>)
  ELSE UpdateBATs(bat_table, regs)

\* a rebuild that adds the new entries to the old ones instead of starting
\* from a cleared table
BATUpdated_AddsToOld(bat_table, regs, fake) ==
  [p \in DOMAIN bat_table |->
     <<(bat_table[p][1] + UpdateBATs(ClearedBatTable(bat_table), regs)[p][1]) % LIMB,
       (bat_table[p][2] + UpdateBATs(ClearedBatTable(bat_table), regs)[p][2]) % LIMB>>]

\* a rebuild that refills the table without clearing it first
BATUpdated_NotCleared(bat_table, regs, fake) == BATRefilled(bat_table, regs, fake)

\* MMU::DBATUpdated / MMU::IBATUpdated on one table: cleared, refilled from
\* the register pairs, and in fake-MMU mode mapped onto itself throughout
BATUpdated(bat_table, regs, fake) ==
  BATRefilled(ClearedBatTable(bat_table), regs, fake)

\* the table of a new MMU: the sampled pages, none mapped
EmptyBatTable == [p \in BatPages |-> <<0, 0>>]

\* ------------------------------------------------------------ page table
PTE(v, vsid, api, rpn, r, c) ==
  [V |-> v, VSID |-> vsid, API |-> api, RPN |-> rpn, R |-> r, C |-> c]
PTE_NONE == PTE(FALSE, 0, 0, 0, FALSE, FALSE)
\* the number of page-table entry groups SDR1 configures
PTEG_COUNT == 2
\* segment registers: segment 0xA is direct-store, the others paged with VSID = index
SegmentRegisters == [i \in 0..15 |-> [T |-> (i = 10), VSID |-> i]]
\* SDR1 / segment configurations with the direct-store bit elsewhere
SegmentConfigs ==
  {SegmentRegisters, [i \in 0..15 |-> [T |-> (i = 8), VSID |-> 16 + i]]}
PTEGIndex(vsid, page_index) == BitXor(vsid, page_index) % PTEG_COUNT
PageTables ==
  { [g \in 0..(PTEG_COUNT - 1) |-> <<PTE_NONE, PTE_NONE>>],
    \* effective 0x00001000 (segment 0, page 1) -> physical 0x00001000
    [g \in 0..(PTEG_COUNT - 1) |->
       IF g = PTEGIndex(0, 1)
       THEN <<PTE_NONE, PTE(TRUE, 0, 0, 1, FALSE, FALSE)>>
       ELSE <<PTE_NONE, PTE_NONE>>] }

IsOpcodeFlag(flag) == flag \in {"Opcode", "OpcodeNoException"}
IsNoExceptionFlag(flag) == flag \in {"NoException", "OpcodeNoException"}

\* a translation that fails with the given kind
TranslateFailed(kind, s) ==
  [result |-> kind, address |-> <<0, 0>>, wi |-> FALSE, pt |-> s.pt]

\* a hit on entry i of group g: the physical page of the entry with the
\* address's offset; the walk writes the referenced bit back unless it is a
\* probe, and the changed bit on a write
PTEHit(flag, address, s, g, i) ==
  [result |-> PAGE_TABLE_TRANSLATED,
   address |-> <<s.pt[g][i].RPN \div 16,
                 (s.pt[g][i].RPN % 16) * HW_PAGE_SIZE + EA_offset(address)>>,
   wi |-> FALSE,
   pt |-> [s.pt EXCEPT ![g][i].R = IF IsNoExceptionFlag(flag) THEN @ ELSE TRUE,
                       ![g][i].C = IF flag = "Write" THEN TRUE ELSE @]]

\* the first of the matching entries hits; none is a page fault
PTEMatch(flag, address, s, g, hits) ==
  IF hits = {} THEN TranslateFailed(PAGE_FAULT, s)
  ELSE PTEHit(flag, address, s, g, SetMin(hits))

\* the search of group g for a valid entry of the segment's VSID and the
\* address's API
SearchPTEG(flag, address, s, vsid, g) ==
  PTEMatch(flag, address, s, g,
           {i \in DOMAIN s.pt[g] :
              s.pt[g][i].V /\ s.pt[g][i].VSID = vsid /\ s.pt[g][i].API = EA_API(address)})

\* the segment register sreg of the address: a direct-store segment is not
\* walked
WalkSegment(flag, address, s, sreg) ==
  IF sreg.T THEN TranslateFailed(DIRECT_STORE_SEGMENT, s)
  ELSE SearchPTEG(flag, address, s, sreg.VSID,
                  PTEGIndex(sreg.VSID, EA_page_index(address)))

\* a page-table walk that sets the referenced bit in every mode
TranslatePageAddress_AlwaysReferenced(flag, address, s) ==
  WalkSegment(IF IsNoExceptionFlag(flag) THEN "Read" ELSE flag, address, s,
              s.sr[EA_SR(address)])

\* MMU::TranslatePageAddress: segment register, then the page-table walk.
\* The result carries the page table as the walk leaves it (referenced and
\* changed bits written back).
TranslatePageAddress(flag, address, s) ==
  WalkSegment(flag, address, s, s.sr[EA_SR(address)])

\* the BAT table entry bat_result of the address: a mapped entry translates
BatLookup(flag, address, s, bat_result) ==
  IF BitAnd(bat_result[2], BAT_MAPPED_BIT) # 0
  THEN [result |-> BAT_TRANSLATED,
        address |-> Or32(And32(bat_result, BAT_RESULT_MASK),
                         And32(address, ToU32(BAT_PAGE_SIZE - 1))),
        wi |-> BitAnd(bat_result[2], BAT_WI_BIT) # 0,
        pt |-> s.pt]
  ELSE TranslatePageAddress(flag, address, s)

\* MMU::TranslateAddress: the BAT table of the access's side first
TranslateAddress(flag, address, s) ==
  BatLookup(flag, address, s,
            (IF IsOpcodeFlag(flag) THEN s.ibat ELSE s.dbat)[Shr32(address, BAT_INDEX_SHIFT)])

\* ------------------------------------------------------- hardware access
\* The machine state the access engine reads and changes, as one record:
\* msrDR, dbat, ibat, sr, pt, mem, exc, and the outputs of the operation
\* under way: alert (a PanicAlert was shown) and hw (the accesses done).
Zero(size) == [k \in 1..((size + 1) \div 2) |-> 0]

\* byte k of a u32, k = 0 the least significant
ByteOf(data, k) ==
  CASE k = 0 -> data[2] % 256
    [] k = 1 -> data[2] \div 256
    [] k = 2 -> data[1] % 256
    [] k = 3 -> data[1] \div 256

\* Memory manager: size bytes at pa, the guest's big-endian order
ReadBE(m, pa, size) ==
  [k \in 1..((size + 1) \div 2) |->
     IF size = 1 THEN m[pa]
     ELSE m[Add32(pa, 2 * k - 2)] * 256 + m[Add32(pa, 2 * k - 1)]]

\* Memory manager: the low size bytes of data stored at pa, big-endian
WriteBE(m, pa, data, size) ==
  [c \in DOMAIN m |->
     IF \E i \in 0..(size - 1) : c = Add32(pa, i)
     THEN ByteOf(data, (size - 1) - (CHOOSE i \in 0..(size - 1) : c = Add32(pa, i)))
     ELSE m[c]]

\* one call of the engine: read or write, its mode, the address given, the
\* physical address and size, and how it ended: "ram", "mmio", "fault"
\* (translation failed) or "unresolved" (no memory at the physical address)
Access(kind, flag, ea, pa, size, out) ==
  [k |-> kind, flag |-> flag, ea |-> ea, pa |-> pa, size |-> size, out |-> out]

\* the outcome of a translation as the engines use it
Translated(r) == [ok |-> Success(r), pa |-> r.address, pt |-> r.pt]

\* effective -> physical as both engines resolve it
Resolve(flag, never_translate, em_address, s) ==
  IF never_translate \/ ~s.msrDR
  THEN [ok |-> TRUE, pa |-> em_address, pt |-> s.pt]
  ELSE Translated(TranslateAddress(flag, em_address, s))

\* the engine's failure path: the excepting modes raise DSI (GenerateDSIException),
\* a host access shows the PanicAlert
Failed(flag, s) ==
  [s EXCEPT !.exc = IF flag \in {"Read", "Write"} THEN @ \cup {"DSI"} ELSE @,
            !.alert = IF flag = "NoException" THEN TRUE ELSE @]

\* the state after the resolution t: the page table as the walk left it, and
\* the call in the log
Walked(s, t, a) == [s EXCEPT !.pt = t.pt, !.hw = Append(@, a)]

\* the read at the resolved address t
ReadResolved(flag, size, em_address, s, t) ==
  IF ~t.ok
  THEN [value |-> Zero(size),
        s |-> Failed(flag, Walked(s, t, Access("read", flag, em_address, t.pa, size, "fault")))]
  ELSE IF IsMMIOAddress(t.pa)
  THEN [value |-> Zero(size),
        s |-> Walked(s, t, Access("read", flag, em_address, t.pa, size, "mmio"))]
  ELSE IF IsRAM(t.pa)
  THEN [value |-> ReadBE(s.mem, t.pa, size),
        s |-> Walked(s, t, Access("read", flag, em_address, t.pa, size, "ram"))]
  ELSE [value |-> Zero(size),
        s |-> [Walked(s, t, Access("read", flag, em_address, t.pa, size, "unresolved"))
                 EXCEPT !.alert = TRUE]]

\* MMU::ReadFromHardware<flag, T, never_translate>
ReadFromHardware(flag, size, never_translate, em_address, s) ==
  ReadResolved(flag, size, em_address, s, Resolve(flag, never_translate, em_address, s))

\* the write at the resolved address t
WriteResolved(flag, em_address, data, size, s, t) ==
  IF ~t.ok
  THEN Failed(flag, Walked(s, t, Access("write", flag, em_address, t.pa, size, "fault")))
  ELSE IF IsMMIOAddress(t.pa)
  THEN Walked(s, t, Access("write", flag, em_address, t.pa, size, "mmio"))
  ELSE IF IsRAM(t.pa)
  THEN [Walked(s, t, Access("write", flag, em_address, t.pa, size, "ram"))
          EXCEPT !.mem = WriteBE(@, t.pa, data, size)]
  ELSE [Walked(s, t, Access("write", flag, em_address, t.pa, size, "unresolved"))
          EXCEPT !.alert = TRUE]

\* MMU::WriteToHardware<flag, never_translate>
WriteToHardware(flag, never_translate, em_address, data, size, s) ==
  WriteResolved(flag, em_address, data, size, s,
                Resolve(flag, never_translate, em_address, s))

\* a successful translation to RAM
IsRAMResult(r) == Success(r) /\ IsRAM(r.address)

\* MMU::IsRAMAddress<flag>
IsRAMAddress(flag, address, translate, s) ==
  IF translate THEN IsRAMResult(TranslateAddress(flag, address, s))
  ELSE IsRAM(address)

\* MMU::HostIsRAMAddress
HostIsRAMAddress(address, space, s) ==
  CASE space = "Effective" -> IsRAMAddress("NoException", address, s.msrDR, s)
    [] space = "Physical" -> IsRAMAddress("NoException", address, FALSE, s)
    [] space = "Virtual" ->
         IF ~s.msrDR THEN FALSE ELSE IsRAMAddress("NoException", address, TRUE, s)

\* MMU::Memcheck: the memory-breakpoint hook.  A breakpoint on an accessed
\* address asks the debugger to break; the access itself is untouched.
MemChecks == {A_BAT}
Memcheck(address, var, write, size, s) ==
  [s EXCEPT !.mc = Append(@, [address |-> address, var |-> var, write |-> write,
                              size |-> size]),
            !.brk = @ \/ address \in MemChecks]

\* ---------------------------------------------------- host access facade
\* static_cast<u32>(v) and static_cast<u32>(v >> 32)
AsU32(v) == IF Len(v) = 1 THEN <<0, v[1]>> ELSE <<v[Len(v) - 1], v[Len(v)]>>
HighU32(v) == <<v[1], v[2]>>

\* std::optional<ReadResult<T>> / std::optional<WriteResult>, with the machine
\* state the call leaves
Nullopt(s) == [present |-> FALSE, translated |-> FALSE, value |-> <<>>, s |-> s]
Result(translated, value, s) ==
  [present |-> TRUE, translated |-> translated, value |-> value, s |-> s]
\* ReadResult<T>(translated, value) of the engine's read r
ReadResult(translated, r) == Result(translated, r.value, r.s)
\* ReadResult<T>(!!msr.DR, value) of the engine's read r
ReadResultDR(r) == Result(r.s.msrDR, r.value, r.s)
\* WriteResult(!!msr.DR) after the engine's write left s
WriteResultDR(s) == Result(s.msrDR, <<>>, s)

\* MMU::HostRead<T> reading in the guest's Read mode
HostRead_ReadMode(size, address, s) ==
  ReadResult(FALSE, ReadFromHardware("Read", size, FALSE, address, s))

\* MMU::HostRead<T>
HostRead(size, address, s) ==
  ReadResult(FALSE, ReadFromHardware("NoException", size, FALSE, address, s))

\* MMU::HostTryRead<T> whose Virtual case reports translated = false
HostTryRead_VirtualUntranslated(size, address, space, s) ==
  IF ~HostIsRAMAddress(address, space, s) THEN Nullopt(s)
  ELSE CASE space = "Effective" ->
              ReadResultDR(ReadFromHardware("NoException", size, FALSE, address, s))
         [] space = "Physical" ->
              ReadResult(FALSE, ReadFromHardware("NoException", size, TRUE, address, s))
         [] space = "Virtual" ->
              IF ~s.msrDR THEN Nullopt(s)
              ELSE ReadResult(FALSE, ReadFromHardware("NoException", size, FALSE, address, s))

\* MMU::HostTryRead<T> without the HostIsRAMAddress test
HostTryRead_NoRAMTest(size, address, space, s) ==
  CASE space = "Effective" ->
         ReadResultDR(ReadFromHardware("NoException", size, FALSE, address, s))
    [] space = "Physical" ->
         ReadResult(FALSE, ReadFromHardware("NoException", size, TRUE, address, s))
    [] space = "Virtual" ->
         IF ~s.msrDR THEN Nullopt(s)
         ELSE ReadResult(TRUE, ReadFromHardware("NoException", size, FALSE, address, s))

\* MMU::HostTryRead<T> whose Effective case always reports translated = true
HostTryRead_EffectiveTranslated(size, address, space, s) ==
  IF ~HostIsRAMAddress(address, space, s) THEN Nullopt(s)
  ELSE CASE space = "Effective" ->
              ReadResult(TRUE, ReadFromHardware("NoException", size, FALSE, address, s))
         [] space = "Physical" ->
              ReadResult(FALSE, ReadFromHardware("NoException", size, TRUE, address, s))
         [] space = "Virtual" ->
              IF ~s.msrDR THEN Nullopt(s)
              ELSE ReadResult(TRUE, ReadFromHardware("NoException", size, FALSE, address, s))

\* MMU::HostTryRead<T> whose Effective case never translates
HostTryRead_EffectiveNeverTranslates(size, address, space, s) ==
  IF ~HostIsRAMAddress(address, space, s) THEN Nullopt(s)
  ELSE CASE space = "Effective" ->
              ReadResultDR(ReadFromHardware("NoException", size, TRUE, address, s))
         [] space = "Physical" ->
              ReadResult(FALSE, ReadFromHardware("NoException", size, TRUE, address, s))
         [] space = "Virtual" ->
              IF ~s.msrDR THEN Nullopt(s)
              ELSE ReadResult(TRUE, ReadFromHardware("NoException", size, FALSE, address, s))

\* HostTryRead<T> reporting, for a forced-physical read, MSR.DR as it does
\* for an effective one
HostTryRead_PhysicalByDR(size, address, space, s) ==
  IF ~HostIsRAMAddress(address, space, s) THEN Nullopt(s)
  ELSE CASE space = "Effective" ->
              ReadResultDR(ReadFromHardware("NoException", size, FALSE, address, s))
         [] space = "Physical" ->
              ReadResultDR(ReadFromHardware("NoException", size, TRUE, address, s))
         [] space = "Virtual" ->
              IF ~s.msrDR THEN Nullopt(s)
              ELSE ReadResult(TRUE, ReadFromHardware("NoException", size, FALSE, address, s))

\* MMU::HostTryRead<T>
HostTryRead(size, address, space, s) ==
  IF ~HostIsRAMAddress(address, space, s) THEN Nullopt(s)
  ELSE CASE space = "Effective" ->
              ReadResultDR(ReadFromHardware("NoException", size, FALSE, address, s))
         [] space = "Physical" ->
              ReadResult(FALSE, ReadFromHardware("NoException", size, TRUE, address, s))
         [] space = "Virtual" ->
              IF ~s.msrDR THEN Nullopt(s)
              ELSE ReadResult(TRUE, ReadFromHardware("NoException", size, FALSE, address, s))

\* MMU::HostWrite<T>, requires(!Size64<T>)
HostWrite(size, var, address, s) ==
  Result(FALSE, <<>>,
         WriteToHardware("NoException", FALSE, address, AsU32(var), size, s))

\* MMU::HostWrite<T>, requires Size64<T>
HostWrite_Size64(var, address, s) ==
  Result(FALSE, <<>>,
         WriteToHardware("NoException", FALSE, Add32(address, 4), AsU32(var), 4,
           WriteToHardware("NoException", FALSE, address, HighU32(var), 4, s)))

\* the result r of a HostTryWrite<T> call at address, noted in sub
Noted(address, r) ==
  [r EXCEPT !.s.sub = Append(@, [address |-> address, present |-> r.present,
                                 translated |-> r.translated])]

\* MMU::HostTryWrite<T>, requires(!Size64<T>); every call is noted in sub
HostTryWrite(size, var, address, space, s) ==
  Noted(address,
    IF ~HostIsRAMAddress(address, space, s) THEN Nullopt(s)
    ELSE CASE space = "Effective" ->
                WriteResultDR(
                  WriteToHardware("NoException", FALSE, address, AsU32(var), size, s))
           [] space = "Physical" ->
                Result(FALSE, <<>>,
                  WriteToHardware("NoException", TRUE, address, AsU32(var), size, s))
           [] space = "Virtual" ->
                IF ~s.msrDR THEN Nullopt(s)
                ELSE Result(TRUE, <<>>,
                       WriteToHardware("NoException", FALSE, address, AsU32(var), size, s)))

\* HostTryWrite<u64> without the early return: the low word is tried although
\* the high word failed
HostTryWrite_Size64_NoEarlyReturn(var, address, space, s) ==
  LET result == HostTryWrite(4, HighU32(var), address, space, s)
      second == HostTryWrite(4, AsU32(var), Add32(address, 4), space, result.s)
  IN  IF ~result.present THEN [result EXCEPT !.s = second.s] ELSE second

\* HostTryWrite<u64> trying the low word at A+4 before the high word at A
HostTryWrite_Size64_LowFirst(var, address, space, s) ==
  LET result == HostTryWrite(4, AsU32(var), Add32(address, 4), space, s)
  IN  IF ~result.present THEN result
      ELSE HostTryWrite(4, HighU32(var), address, space, result.s)

\* HostTryWrite<u64> with the two words exchanged
HostTryWrite_Size64_WordsSwapped(var, address, space, s) ==
  LET result == HostTryWrite(4, AsU32(var), address, space, s)
  IN  IF ~result.present THEN result
      ELSE HostTryWrite(4, HighU32(var), Add32(address, 4), space, result.s)

\* the rest of HostTryWrite<u64> after the high word's result
HostTryWrite_Size64_Low(var, address, space, result) ==
  IF ~result.present THEN result
  ELSE HostTryWrite(4, AsU32(var), Add32(address, 4), space, result.s)

\* MMU::HostTryWrite<T>, requires Size64<T>
HostTryWrite_Size64(var, address, space, s) ==
  HostTryWrite_Size64_Low(var, address, space,
                          HostTryWrite(4, HighU32(var), address, space, s))

\* the value the hook has seen, zeroed when the hook breaks
Checked_ZeroOnBreak(size, address, r) ==
  Result(FALSE, IF address \in MemChecks THEN Zero(size) ELSE r.value,
         Memcheck(address, r.value, FALSE, size, r.s))

\* ------------------------------------------------------ guest access
\* the value read, after the memory-breakpoint hook has seen it
Checked(size, address, r) ==
  Result(FALSE, r.value, Memcheck(address, r.value, FALSE, size, r.s))

\* MMU::Read<T> reading in the probing mode
Read_NoException(size, address, s) ==
  Checked(size, address, ReadFromHardware("NoException", size, FALSE, address, s))

\* MMU::Read<T>
Read(size, address, s) ==
  Checked(size, address, ReadFromHardware("Read", size, FALSE, address, s))

\* MMU::Write<T>, requires(!Size64<T>)
Write(size, var, address, s) ==
  Result(FALSE, <<>>,
         WriteToHardware("Write", FALSE, address, AsU32(var), size,
                         Memcheck(address, var, TRUE, size, s)))

\* MMU::Write<T>, requires Size64<T>
Write_Size64(var, address, s) ==
  Result(FALSE, <<>>,
         WriteToHardware("Write", FALSE, Add32(address, 4), AsU32(var), 4,
           WriteToHardware("Write", FALSE, address, HighU32(var), 4,
                           Memcheck(address, var, TRUE, 8, s))))

\* the instruction fetch at the resolved address t: a failed translation
\* raises ISI (GenerateISIException) and gives zero
OpcodeResolved(address, s, t) ==
  IF ~t.ok
  THEN [value |-> Zero(4),
        s |-> [Walked(s, t, Access("read", "Opcode", address, t.pa, 4, "fault"))
                 EXCEPT !.exc = @ \cup {"ISI"}]]
  ELSE IF IsRAM(t.pa)
  THEN [value |-> ReadBE(s.mem, t.pa, 4),
        s |-> Walked(s, t, Access("read", "Opcode", address, t.pa, 4, "ram"))]
  ELSE [value |-> Zero(4),
        s |-> Walked(s, t, Access("read", "Opcode", address, t.pa, 4, "unresolved"))]

\* MMU::Read_Opcode over MMU::TryReadInstruction: translated in Opcode mode
\* when MSR.IR is on
Read_Opcode(address, s) ==
  ReadResult(FALSE,
             OpcodeResolved(address, s,
                            IF ~s.msrIR THEN [ok |-> TRUE, pa |-> address, pt |-> s.pt]
                            ELSE Translated(TranslateAddress("Opcode", address, s))))

\* ----------------------------------------------------- cache-line operations
\* "Zeroes 32 bytes": the size of a data cache line
CACHE_LINE_SIZE == 32

\* memory m with the CACHE_LINE_SIZE bytes from pa on zeroed
ZeroFilled(m, pa) ==
  [c \in DOMAIN m |->
     IF \E i \in 0..(CACHE_LINE_SIZE - 1) : c = Add32(pa, i) THEN 0 ELSE m[c]]

\* a line clear that zero-fills at the effective address it was given
LineCleared_Untranslated(address, s, t) ==
  IF ~t.ok
  THEN Failed("Write", Walked(s, t, Access("dcbz", "Write", address, t.pa,
                                           CACHE_LINE_SIZE, "fault")))
  ELSE [Walked(s, t, Access("dcbz", "Write", address, t.pa, CACHE_LINE_SIZE, "ram"))
          EXCEPT !.mem = ZeroFilled(s.mem, address)]

\* the line clear at the resolved address t: a failed translation raises DSI
\* and clears nothing, RAM is zero-filled
LineCleared(address, s, t) ==
  IF ~t.ok
  THEN Failed("Write", Walked(s, t, Access("dcbz", "Write", address, t.pa,
                                           CACHE_LINE_SIZE, "fault")))
  ELSE IF IsRAM(t.pa)
  THEN [Walked(s, t, Access("dcbz", "Write", address, t.pa, CACHE_LINE_SIZE, "ram"))
          EXCEPT !.mem = ZeroFilled(s.mem, t.pa)]
  ELSE Walked(s, t, Access("dcbz", "Write", address, t.pa, CACHE_LINE_SIZE, "unresolved"))

\* MMU::ClearDCacheLine: the address is resolved once, in Write mode
ClearDCacheLine(address, s) ==
  Result(FALSE, <<>>, LineCleared(address, s, Resolve("Write", FALSE, address, s)))

\* ------------------------------------------------------------ the machine
VARIABLES
  msr_DR,        \* m_ppc_state.msr.DR
  msr_IR,        \* m_ppc_state.msr.IR
  fake_vmem,     \* m_memory.GetFakeVMEM(): the fake-MMU mode
  cpu,           \* the CPU thread: "running", "rebuilding" (inside DBATUpdated,
                 \* the table cleared and not refilled) or "paused" (a host
                 \* thread holds the CPUThreadGuard)
  dbat_regs,     \* the data BAT register pairs (SPRs)
  ibat_regs,     \* the instruction BAT register pairs (SPRs)
  m_dbat_table,  \* MMU::m_dbat_table
  m_ibat_table,  \* MMU::m_ibat_table
  sr,            \* m_ppc_state.sr
  pt,            \* the page table in guest memory
  mem,           \* guest RAM, byte by byte
  Exceptions,    \* m_ppc_state.Exceptions
  last,          \* the last operation: its arguments, result and outputs
  steps,         \* operations done
  pc,            \* the host threads using the Common objects below: each
                 \* thread's position in the function it is executing
  obs,           \* what those threads have observed: return values, counts
  wflag,         \* a Common::WaitableFlag built on std::atomic_bool
  cv,            \* a Common::WaitableFlag or Common::TimedEvent built on a
                 \* Flag, a mutex and a condition variable
  hooks,         \* a Common::HookableEvent: its Storage and its handles
  aup,           \* a Common::AtomicUniquePtr and the objects handed to it
  bus            \* a Common::I2CBus and the two lines driving it

\* the MMU and the memory behind it
mmu_vars == <<msr_DR, msr_IR, fake_vmem, cpu, dbat_regs, ibat_regs, m_dbat_table,
              m_ibat_table, sr, pt, mem, Exceptions, last, steps>>

\* the objects of Source/Core/Common
common_vars == <<pc, obs, wflag, cv, hooks, aup, bus>>

vars == <<mmu_vars, common_vars>>

\* operations in one behaviour
MaxSteps == 2

\* the access sizes applied at each sampled address: every size where the
\* access stays inside one page, the 32- and 64-bit ones at the two addresses
\* whose A+4 leaves the page, 32-bit at the others
SizesAt(a) ==
  IF a \in {A_RAM, A_BAT} THEN {1, 2, 4, 8}
  ELSE IF a \in {A_EDGE, A_WRAP} THEN {4, 8}
  ELSE {4}
\* 0x0123456789ABCDEF and 0xFEEDFACEDEADBEEF, and their low bytes
V1 == <<291, 17767, 35243, 52719>>
V2 == <<65261, 64206, 57005, 48879>>
Truncate(v, size) ==
  CASE size = 8 -> v
    [] size = 4 -> <<v[3], v[4]>>
    [] size = 2 -> <<v[4]>>
    [] size = 1 -> <<v[4] % 256>>
Values(size) ==
  IF size = 4 THEN {Truncate(V1, size), Truncate(V2, size)} ELSE {Truncate(V1, size)}

\* accesses are naturally aligned; a 64-bit write is two 32-bit writes and
\* needs 4-byte alignment only
Aligned(address, size) == address[2] % size = 0
WriteAligned(address, size) == Aligned(address, IF size = 8 THEN 4 ELSE size)

\* the machine state as the operators take it
Cur ==
  [msrDR |-> msr_DR, msrIR |-> msr_IR, dbat |-> m_dbat_table, ibat |-> m_ibat_table, sr |-> sr,
   pt |-> pt, mem |-> mem, exc |-> Exceptions,
   alert |-> FALSE, hw |-> <<>>, sub |-> <<>>, mc |-> <<>>, brk |-> FALSE]

NoOp ==
  [op |-> "none", size |-> 0, address |-> <<0, 0>>, space |-> "Effective", var |-> <<>>,
   present |-> FALSE, translated |-> FALSE, value |-> <<>>, alert |-> FALSE,
   hw |-> <<>>, sub |-> <<>>, mc |-> <<>>, brk |-> FALSE, tr |-> <<>>,
   again |-> FALSE]

\* the machine after boot, given the fake-MMU setting and the memory content:
\* the BAT tables are built from the registers
Booted ==
  /\ msr_DR \in BOOLEAN
  /\ msr_IR = TRUE
  /\ cpu = "running"
  /\ dbat_regs \in BatConfigs
  /\ ibat_regs = <<BatReg(TRUE, 16384, 0, 0, FALSE), BAT_OFF>>
  /\ m_dbat_table = BATUpdated(EmptyBatTable, dbat_regs, fake_vmem)
  /\ m_ibat_table = BATUpdated(EmptyBatTable, ibat_regs, fake_vmem)
  /\ sr = SegmentRegisters
  /\ pt \in PageTables
  /\ Exceptions = {}
  /\ last = NoOp
  /\ steps = 0
  /\ pc = <<>>
  /\ obs = <<>>
  /\ wflag = <<>>
  /\ cv = <<>>
  /\ hooks = <<>>
  /\ aup = <<>>
  /\ bus = <<>>

Init ==
  /\ fake_vmem = FALSE
  /\ mem = [c \in RamCells |-> 0]
  /\ Booted

\* the state an operation leaves: r is its result record
Commit(op, size, address, space, var, r) ==
  /\ steps < MaxSteps
  /\ steps' = steps + 1
  /\ mem' = r.s.mem
  /\ pt' = r.s.pt
  /\ Exceptions' = r.s.exc
  /\ last' = [op |-> op, size |-> size, address |-> address, space |-> space,
              var |-> var, present |-> r.present, translated |-> r.translated,
              value |-> r.value, alert |-> r.s.alert, hw |-> r.s.hw, sub |-> r.s.sub,
              mc |-> r.s.mc, brk |-> r.s.brk, tr |-> <<>>, again |-> FALSE]
  /\ UNCHANGED <<msr_DR, msr_IR, fake_vmem, cpu, dbat_regs, ibat_regs, m_dbat_table,
                 m_ibat_table, sr, common_vars>>

CallHostRead ==
  \E a \in Addresses :
   \E size \in SizesAt(a) :
    /\ Aligned(a, size)
    /\ Commit("HostRead", size, a, "Effective", <<>>, HostRead(size, a, Cur))

CallHostTryRead ==
  \E a \in Addresses, space \in RequestedAddressSpace :
   \E size \in SizesAt(a) :
    /\ Aligned(a, size)
    /\ Commit("HostTryRead", size, a, space, <<>>, HostTryRead(size, a, space, Cur))

CallHostWrite ==
  \E a \in Addresses :
   \E size \in SizesAt(a) :
    \E var \in Values(size) :
      /\ WriteAligned(a, size)
      /\ Commit("HostWrite", size, a, "Effective", var,
                IF size = 8 THEN HostWrite_Size64(var, a, Cur)
                ELSE HostWrite(size, var, a, Cur))

CallHostTryWrite ==
  \E a \in Addresses, space \in RequestedAddressSpace :
   \E size \in SizesAt(a) :
    \E var \in Values(size) :
      /\ WriteAligned(a, size)
      /\ Commit("HostTryWrite", size, a, space, var,
                IF size = 8 THEN HostTryWrite_Size64(var, a, space, Cur)
                ELSE HostTryWrite(size, var, a, space, Cur))

CallRead ==
  \E a \in Addresses :
   \E size \in SizesAt(a) :
    /\ Aligned(a, size)
    /\ Commit("Read", size, a, "Effective", <<>>, Read(size, a, Cur))

CallWrite ==
  \E a \in Addresses :
   \E size \in SizesAt(a) :
    \E var \in Values(size) :
      /\ WriteAligned(a, size)
      /\ Commit("Write", size, a, "Effective", var,
                IF size = 8 THEN Write_Size64(var, a, Cur) ELSE Write(size, var, a, Cur))

\* the state a translation in mode flag leaves: r is its result
CommitTranslation(flag, a, r) ==
  /\ steps < MaxSteps
  /\ steps' = steps + 1
  /\ pt' = r.pt
  /\ last' = [NoOp EXCEPT !.op = "TranslateAddress", !.address = a, !.space = flag,
                          !.tr = <<[result |-> r.result, address |-> r.address,
                                    wi |-> r.wi]>>]
  /\ UNCHANGED <<msr_DR, msr_IR, fake_vmem, cpu, dbat_regs, ibat_regs, m_dbat_table,
                 m_ibat_table, sr, mem, Exceptions, common_vars>>

CallRead_Opcode ==
  \E a \in Addresses :
    /\ Aligned(a, 4)
    /\ Commit("Read_Opcode", 4, a, "Effective", <<>>, Read_Opcode(a, Cur))

\* a translation in mode flag, as Read_Opcode, GetTranslatedAddress and the
\* JIT's probes perform it outside the access engine
CallTranslateAddress ==
  \E flag \in XCheckTLBFlag, a \in Addresses :
    /\ IsOpcodeFlag(flag) => Aligned(a, 4)
    /\ CommitTranslation(flag, a, TranslateAddress(flag, a, Cur))

\* The host access facade, called by tooling while the CPU thread is paused
\* (a guest Read may have run before the pause).
Next ==
  \/ CallHostRead
  \/ CallHostTryRead
  \/ CallHostWrite
  \/ CallHostTryWrite
  \/ CallRead

Spec == Init /\ [][Next]_vars

\* The guest's accesses and translations, with the host's probing read.
GuestNext ==
  \/ CallRead
  \/ CallWrite
  \/ CallTranslateAddress
  \/ CallHostRead
  \/ CallRead_Opcode

GuestSpec == Init /\ [][GuestNext]_vars

\* ------------------------------------------- CPU thread and host threads
\* what a step of the threads that is no access leaves as it was
OffAccess == UNCHANGED <<msr_DR, msr_IR, fake_vmem, ibat_regs, m_ibat_table, sr, pt, mem,
                         Exceptions, last, steps, common_vars>>

\* the CPU thread executes mtspr to a data BAT register and enters
\* DBATUpdated: the table is cleared
BeginDBATUpdated ==
  \E regs \in BatConfigs :
    /\ cpu = "running"
    /\ regs # dbat_regs
    /\ dbat_regs' = regs
    /\ m_dbat_table' = ClearedBatTable(m_dbat_table)
    /\ cpu' = "rebuilding"
    /\ OffAccess

\* the CPU thread leaves DBATUpdated: the table is refilled
EndDBATUpdated ==
  /\ cpu = "rebuilding"
  /\ m_dbat_table' = BATRefilled(m_dbat_table, dbat_regs, fake_vmem)
  /\ cpu' = "running"
  /\ UNCHANGED dbat_regs
  /\ OffAccess

\* a guard that stops the CPU thread wherever it is
AcquireGuard_NoWait ==
  /\ cpu \in {"running", "rebuilding"}
  /\ cpu' = "paused"
  /\ UNCHANGED <<dbat_regs, m_dbat_table>>
  /\ OffAccess

\* Core::CPUThreadGuard constructed by a host thread: the CPU thread is
\* paused between two instructions
AcquireGuard ==
  /\ cpu = "running"
  /\ cpu' = "paused"
  /\ UNCHANGED <<dbat_regs, m_dbat_table>>
  /\ OffAccess

\* the guard destroyed: the CPU thread resumes
ReleaseGuard ==
  /\ cpu = "paused"
  /\ cpu' = "running"
  /\ UNCHANGED <<dbat_regs, m_dbat_table>>
  /\ OffAccess

\* a host thread's access: the functions take the guard as an argument
GuardedHostTryRead ==
  /\ cpu = "paused"
  /\ CallHostTryRead

\* the CPU thread's own access, between two instructions' register writes
GuestRead ==
  /\ cpu = "running"
  /\ CallRead

\* a machine booted with no data BAT configured
ThreadInit ==
  /\ Init
  /\ dbat_regs = <<BAT_OFF, BAT_OFF>>

\* The CPU thread and a host thread, interleaved.
ThreadNext ==
  \/ BeginDBATUpdated
  \/ EndDBATUpdated
  \/ AcquireGuard
  \/ ReleaseGuard
  \/ GuardedHostTryRead
  \/ GuestRead

ThreadSpec == ThreadInit /\ [][ThreadNext]_vars

\* ------------------------------------------------------------ cache lines
\* "address should be 32-byte-aligned": the callers pass line addresses
CallClearDCacheLine ==
  \E a \in Addresses :
    /\ Aligned(a, CACHE_LINE_SIZE)
    /\ Commit("ClearDCacheLine", CACHE_LINE_SIZE, a, "Effective", <<>>,
              ClearDCacheLine(a, Cur))

\* the bytes of RAM of the line at 0x00001000 and the four before and after
LineCells == {<<0, 4092 + x>> : x \in 0..(CACHE_LINE_SIZE + 7)}

\* a machine whose RAM holds no zero byte
CacheInit ==
  /\ fake_vmem = FALSE
  /\ mem = [c \in RamCells \cup LineCells |-> 1 + (c[2] % 255)]
  /\ Booted

\* The line clear among the guest's reads and writes.
CacheNext ==
  \/ CallClearDCacheLine
  \/ CallRead
  \/ CallWrite

CacheSpec == CacheInit /\ [][CacheNext]_vars

\* The host's Try accesses alone.
TryNext ==
  \/ CallHostTryRead
  \/ CallHostTryWrite

TrySpec == Init /\ [][TryNext]_vars

\* ------------------------------------------- BAT registers and BAT tables
\* what a register-write notification leaves besides the tables; again tells
\* that the step before was the same notification
Notified(op, again) ==
  /\ steps < MaxSteps
  /\ steps' = steps + 1
  /\ last' = [NoOp EXCEPT !.op = op, !.again = again]
  /\ UNCHANGED <<msr_DR, msr_IR, fake_vmem, cpu, sr, mem, Exceptions, common_vars>>

\* mtspr to a data BAT register: the register pairs change and the write is
\* notified to the MMU, which rebuilds the data table
WriteDBAT ==
  \E regs \in BatConfigs :
    /\ regs # dbat_regs
    /\ dbat_regs' = regs
    /\ m_dbat_table' = BATUpdated(m_dbat_table, regs, fake_vmem)
    /\ Notified("DBATUpdated", FALSE)
    /\ UNCHANGED <<ibat_regs, m_ibat_table, pt>>

\* MMU::DBATUpdated with the registers as they are
DBATUpdated ==
  /\ m_dbat_table' = BATUpdated(m_dbat_table, dbat_regs, fake_vmem)
  /\ Notified("DBATUpdated", last.op = "DBATUpdated")
  /\ UNCHANGED <<dbat_regs, ibat_regs, m_ibat_table, pt>>

\* mtspr to an instruction BAT register
WriteIBAT ==
  \E regs \in BatConfigs :
    /\ regs # ibat_regs
    /\ ibat_regs' = regs
    /\ m_ibat_table' = BATUpdated(m_ibat_table, regs, fake_vmem)
    /\ Notified("IBATUpdated", FALSE)
    /\ UNCHANGED <<dbat_regs, m_dbat_table, pt>>

\* MMU::IBATUpdated with the registers as they are
IBATUpdated ==
  /\ m_ibat_table' = BATUpdated(m_ibat_table, ibat_regs, fake_vmem)
  /\ Notified("IBATUpdated", last.op = "IBATUpdated")
  /\ UNCHANGED <<dbat_regs, ibat_regs, m_dbat_table, pt>>

\* MMU::SDRUpdated: mtspr to SDR1 moved the page table; both BAT tables are
\* rebuilt from the registers as they are
SDRUpdated ==
  /\ pt' \in PageTables
  /\ m_dbat_table' = BATUpdated(m_dbat_table, dbat_regs, fake_vmem)
  /\ m_ibat_table' = BATUpdated(m_ibat_table, ibat_regs, fake_vmem)
  /\ Notified("SDRUpdated", FALSE)
  /\ UNCHANGED <<dbat_regs, ibat_regs>>

\* BatTable& GetDBATTable(): the caller is handed m_dbat_table itself, not
\* const, and stores an entry through the reference
GetDBATTable ==
  \E p \in BatPages, entry \in {<<0, 0>>, <<0, BAT_MAPPED_BIT + BAT_PHYSICAL_BIT>>} :
    /\ m_dbat_table' = [m_dbat_table EXCEPT ![p] = entry]
    /\ Notified("GetDBATTable", FALSE)
    /\ UNCHANGED <<dbat_regs, ibat_regs, m_ibat_table, pt>>

\* BatTable& GetIBATTable(), likewise
GetIBATTable ==
  \E p \in BatPages, entry \in {<<0, 0>>, <<0, BAT_MAPPED_BIT + BAT_PHYSICAL_BIT>>} :
    /\ m_ibat_table' = [m_ibat_table EXCEPT ![p] = entry]
    /\ Notified("GetIBATTable", FALSE)
    /\ UNCHANGED <<dbat_regs, ibat_regs, m_dbat_table, pt>>

\* a machine booted with or without the fake-MMU mode
BatInit ==
  /\ fake_vmem \in BOOLEAN
  /\ mem = [c \in RamCells |-> 0]
  /\ Booted

\* The BAT register writes and notifications, among guest and host accesses.
BatNext ==
  \/ WriteDBAT
  \/ DBATUpdated
  \/ WriteIBAT
  \/ IBATUpdated
  \/ SDRUpdated
  \/ CallRead
  \/ CallWrite
  \/ CallHostRead

BatSpec == BatInit /\ [][BatNext]_vars

\* The same, with the holders of the references the table accessors hand out.
BatRefNext ==
  \/ BatNext
  \/ GetDBATTable
  \/ GetIBATTable

BatRefSpec == BatInit /\ [][BatRefNext]_vars

\* ------------------------------------------- Common objects: the threads
\* The objects of Source/Core/Common are used by host threads while the
\* MMU is at rest.
MMUAtRest ==
  /\ msr_DR = FALSE
  /\ msr_IR = TRUE
  /\ fake_vmem = FALSE
  /\ cpu = "running"
  /\ dbat_regs = <<BAT_OFF, BAT_OFF>>
  /\ ibat_regs = <<BAT_OFF, BAT_OFF>>
  /\ m_dbat_table = EmptyBatTable
  /\ m_ibat_table = EmptyBatTable
  /\ sr = SegmentRegisters
  /\ pt = <<>>
  /\ mem = <<>>
  /\ Exceptions = {}
  /\ last = NoOp
  /\ steps = 0

\* thread t moves to the statement named to
Goto(t, to) == pc' = [pc EXCEPT ![t].at = to]

\* thread t returns from the call it is in and goes on with the statements
\* that follow the call (pc[t].then); with none left it is between calls
Return(t, did) ==
  pc' = [pc EXCEPT ![t].did = did,
                   ![t].at = IF pc[t].then = <<>> THEN "idle" ELSE Head(pc[t].then),
                   ![t].then = IF pc[t].then = <<>> THEN <<>> ELSE Tail(pc[t].then)]

\* a thread that has made no call yet
Started ==
  [at |-> "idle", f |-> "none", value |-> FALSE, did |-> "none", calls |-> 0, then |-> <<>>,
   i |-> 0, h |-> 0]

\* ---------------------------------------- WaitableFlag on std::atomic_bool
\* calls one thread makes in one behaviour
MaxCalls == 2

FlagThreads == {"t1", "t2"}

\* m_flag.store(value, release), the first statement of Set(value)
WaitableFlag_Set(t) ==
  /\ pc[t].at = "Set"
  /\ wflag' = [wflag EXCEPT !.m_flag = pc[t].value]
  /\ Goto(t, "notify_all")

\* m_flag.notify_all(), the second statement of Set(value): every thread
\* blocked in m_flag.wait is unblocked and compares the value again
WaitableFlag_notify_all(t) ==
  /\ pc[t].at = "notify_all"
  /\ wflag' = [wflag EXCEPT !.blocked = {}]
  /\ Return(t, "Set")

\* variant: Reset() also notifies, as Set(false) does
WaitableFlag_Reset_Notifies(t) ==
  /\ pc[t].at = "Reset"
  /\ wflag' = [m_flag |-> FALSE, blocked |-> {}]
  /\ Return(t, "Reset")

\* Reset(): m_flag.store(false, relaxed) and nothing else
WaitableFlag_Reset(t) ==
  /\ pc[t].at = "Reset"
  /\ wflag' = [wflag EXCEPT !.m_flag = FALSE]
  /\ Return(t, "Reset")

\* Wait(expected_value) is m_flag.wait(!expected_value): the value is
\* loaded and compared; the call returns when it differs from
\* !expected_value and blocks otherwise, the comparison and the blocking
\* being one step with respect to a store followed by a notify
WaitableFlag_Wait(t) ==
  /\ pc[t].at = "Wait"
  /\ t \notin wflag.blocked
  /\ IF wflag.m_flag # (~pc[t].value)
       THEN Return(t, "Wait") /\ UNCHANGED wflag
       ELSE wflag' = [wflag EXCEPT !.blocked = @ \cup {t}] /\ UNCHANGED pc

\* std::atomic::wait may unblock spuriously; the value is then compared again
SpuriousUnblock(t) ==
  /\ t \in wflag.blocked
  /\ wflag' = [wflag EXCEPT !.blocked = @ \ {t}]
  /\ UNCHANGED pc

\* a thread between calls calls Set(value), Wait(value) or Reset()
FlagCall(t) ==
  /\ pc[t].at = "idle"
  /\ pc[t].calls < MaxCalls
  /\ \E f \in {"Set", "Wait", "Reset"}, value \in BOOLEAN :
       pc' = [pc EXCEPT ![t].at = f, ![t].value = value, ![t].calls = @ + 1]
  /\ UNCHANGED wflag

FlagInit ==
  /\ MMUAtRest
  /\ pc = [t \in FlagThreads |-> Started]
  /\ obs = <<>>
  /\ wflag = [m_flag |-> FALSE, blocked |-> {}]
  /\ cv = <<>>
  /\ hooks = <<>>
  /\ aup = <<>>
  /\ bus = <<>>

\* Two threads calling Set, Wait and Reset on one WaitableFlag.
FlagNext ==
  /\ \E t \in FlagThreads :
       \/ FlagCall(t)
       \/ WaitableFlag_Set(t)
       \/ WaitableFlag_notify_all(t)
       \/ WaitableFlag_Reset(t)
       \/ WaitableFlag_Wait(t)
       \/ SpuriousUnblock(t)
  /\ UNCHANGED <<mmu_vars, obs, cv, hooks, aup, bus>>

FlagSpec == FlagInit /\ [][FlagNext]_vars

\* ------------------------------------------------------------------ Event
\* items the producer publishes in one behaviour
MaxItems == 3

\* Event::Set() is m_flag.Set()
Event_Set == <<"Set", "notify_all">>

\* Event::Wait(): m_flag.Wait(true), then m_flag.Reset(), then a seq_cst
\* fence
Event_Wait == <<"Wait", "Reset">>

\* variant: without the fence of Event::Wait the Reset store may be ordered
\* after the consumer's loads of the published data
ConsumerLoop_NoFence == <<"Wait", "load", "Reset">>

\* the consumer loops Wait(), then reads all published data: the fence
\* keeps the loads after the Reset store
ConsumerLoop == Event_Wait \o <<"load">>

\* thread t starts on the statements in program
Run(t, program) ==
  pc' = [pc EXCEPT ![t].at = Head(program), ![t].then = Tail(program),
                   ![t].value = TRUE]

\* the producer publishes an item and then calls Set()
Produce(t) ==
  /\ pc[t].at = "idle"
  /\ obs.published < MaxItems
  /\ obs' = [obs EXCEPT !.published = @ + 1]
  /\ Run(t, Event_Set)
  /\ UNCHANGED wflag

\* the consumer calls Wait()
Consume(t) ==
  /\ pc[t].at = "idle"
  /\ Run(t, ConsumerLoop)
  /\ UNCHANGED <<obs, wflag>>

\* the consumer reads all the data published so far
LoadPublished(t) ==
  /\ pc[t].at = "load"
  /\ obs' = [obs EXCEPT !.consumed = obs.published]
  /\ Return(t, "load")
  /\ UNCHANGED wflag

EventInit ==
  /\ MMUAtRest
  /\ pc = [t \in {"producer", "consumer"} |-> Started]
  /\ obs = [published |-> 0, consumed |-> 0]
  /\ wflag = [m_flag |-> FALSE, blocked |-> {}]
  /\ cv = <<>>
  /\ hooks = <<>>
  /\ aup = <<>>
  /\ bus = <<>>

ProducerStep ==
  /\ \/ Produce("producer")
     \/ WaitableFlag_Set("producer") /\ UNCHANGED obs
     \/ WaitableFlag_notify_all("producer") /\ UNCHANGED obs
  /\ UNCHANGED <<mmu_vars, cv, hooks, aup, bus>>

ConsumerStep ==
  /\ \/ Consume("consumer")
     \/ WaitableFlag_Wait("consumer") /\ UNCHANGED obs
     \/ WaitableFlag_Reset("consumer") /\ UNCHANGED obs
     \/ LoadPublished("consumer")
  /\ UNCHANGED <<mmu_vars, cv, hooks, aup, bus>>

\* One producer and one consumer on one Event.
EventNext ==
  \/ ProducerStep
  \/ ConsumerStep
  \/ SpuriousUnblock("consumer") /\ UNCHANGED <<mmu_vars, obs, cv, hooks, aup, bus>>

\* Both threads are scheduled for as long as they can run; a spurious
\* unblocking is never owed.
EventSpec ==
  EventInit /\ [][EventNext]_vars /\ WF_vars(ProducerStep) /\ WF_vars(ConsumerStep)

\* ------------------------- WaitableFlag on a mutex and a condition variable
CvThreads == {"t1", "t2"}

\* Common::Flag::TestAndSet(value): the flag takes the value; the result
\* tells whether that changed it
TestAndSet(m_flag, value) == m_flag # value

\* a thread acquires the free mutex (std::lock_guard, std::unique_lock, and
\* the reacquisition inside std::condition_variable::wait)
Lock(t, to) ==
  /\ cv.m_mutex = "none"
  /\ cv' = [cv EXCEPT !.m_mutex = t]
  /\ Goto(t, to)

\* variant: Set does not take the mutex between the change and the notify
CvSet_NoLock(t) ==
  \/ /\ pc[t].at = "TestAndSet"
     /\ cv' = [cv EXCEPT !.m_flag = pc[t].value]
     /\ IF TestAndSet(cv.m_flag, pc[t].value)
          THEN Goto(t, "cv_notify_all")
          ELSE Return(t, "Set")
  \/ /\ pc[t].at = "cv_notify_all"
     /\ cv' = [cv EXCEPT !.m_condvar = {}]
     /\ Return(t, "Set")

\* Set(value), statement by statement: if (m_flag.TestAndSet(value)), the
\* lock_guard's lock, its unlock, m_condvar.notify_all()
CvSet(t) ==
  \/ /\ pc[t].at = "TestAndSet"
     /\ cv' = [cv EXCEPT !.m_flag = pc[t].value]
     /\ IF TestAndSet(cv.m_flag, pc[t].value)
          THEN Goto(t, "lock_guard")
          ELSE Return(t, "Set")
  \/ /\ pc[t].at = "lock_guard"
     /\ Lock(t, "unlock")
  \/ /\ pc[t].at = "unlock"
     /\ cv' = [cv EXCEPT !.m_mutex = "none"]
     /\ Goto(t, "cv_notify_all")
  \/ /\ pc[t].at = "cv_notify_all"
     /\ cv' = [cv EXCEPT !.m_condvar = {}]
     /\ Return(t, "Set")

\* Wait(expected_value) and WaitFor(expected_value, rel_time) up to a
\* timeout, statement by statement: the test before the lock; the
\* unique_lock's lock (also the reacquisition after a wake-up); the
\* predicate, tested with the mutex held, which ends the wait and releases
\* lk when it holds; std::condition_variable::wait releasing the mutex and
\* blocking in one step; a notified thread going on to reacquire the mutex
CvWait(t) ==
  \/ /\ pc[t].at = "IsSet"
     /\ IF cv.m_flag = pc[t].value THEN Return(t, "signaled") ELSE Goto(t, "unique_lock")
     /\ UNCHANGED cv
  \/ /\ pc[t].at = "unique_lock"
     /\ Lock(t, "predicate")
  \/ /\ pc[t].at = "predicate"
     /\ IF cv.m_flag = pc[t].value
          THEN cv' = [cv EXCEPT !.m_mutex = "none"] /\ Return(t, "signaled")
          ELSE UNCHANGED cv /\ Goto(t, "cv_wait")
  \/ /\ pc[t].at = "cv_wait"
     /\ cv' = [cv EXCEPT !.m_mutex = "none", !.m_condvar = @ \cup {t}]
     /\ Goto(t, "cv_blocked")
  \/ /\ pc[t].at = "cv_blocked"
     /\ t \notin cv.m_condvar
     /\ Goto(t, "unique_lock")
     /\ UNCHANGED cv

\* a condition variable may wake a thread spuriously
CvSpurious(t) ==
  /\ t \in cv.m_condvar
  /\ cv' = [cv EXCEPT !.m_condvar = @ \ {t}]
  /\ UNCHANGED pc

\* WaitFor: rel_time runs out while the thread is blocked
CvWaitFor_timeout(t) ==
  /\ pc[t].f = "WaitFor"
  /\ t \in cv.m_condvar
  /\ cv' = [cv EXCEPT !.m_condvar = @ \ {t}]
  /\ Goto(t, "timeout_lock")

\* WaitFor after a timeout: wait_for reacquires the mutex and returns the
\* predicate's value
CvWaitFor(t) ==
  \/ /\ pc[t].at = "timeout_lock"
     /\ Lock(t, "timeout_predicate")
  \/ /\ pc[t].at = "timeout_predicate"
     /\ cv' = [cv EXCEPT !.m_mutex = "none"]
     /\ Return(t, IF cv.m_flag = pc[t].value THEN "signaled" ELSE "timed out")

\* a thread between calls calls Set(value), Reset(), Wait(value) or
\* WaitFor(value, rel_time); Reset() is Set(false)
CvCall(t) ==
  /\ pc[t].at = "idle"
  /\ pc[t].calls < MaxCalls
  /\ \E f \in {"Set", "Wait", "WaitFor"}, value \in BOOLEAN :
       pc' = [pc EXCEPT ![t].at = IF f = "Set" THEN "TestAndSet" ELSE "IsSet",
                        ![t].f = f, ![t].value = value, ![t].calls = @ + 1]
  /\ UNCHANGED cv

CvInit ==
  /\ MMUAtRest
  /\ pc = [t \in CvThreads |-> Started]
  /\ obs = <<>>
  /\ wflag = <<>>
  /\ cv = [m_flag |-> FALSE, m_mutex |-> "none", m_condvar |-> {}]
  /\ hooks = <<>>
  /\ aup = <<>>
  /\ bus = <<>>

\* the steps a running thread takes by itself
CvStep(t) ==
  /\ \/ CvCall(t)
     \/ CvSet(t)
     \/ CvWait(t)
     \/ CvWaitFor(t)
  /\ UNCHANGED <<mmu_vars, obs, wflag, hooks, aup, bus>>

\* Two threads calling Set, Reset, Wait and WaitFor on one WaitableFlag.
CvNext ==
  \/ \E t \in CvThreads : CvStep(t)
  \/ \E t \in CvThreads :
       /\ CvSpurious(t) \/ CvWaitFor_timeout(t)
       /\ UNCHANGED <<mmu_vars, obs, wflag, hooks, aup, bus>>

\* A thread that can run again and again is scheduled, and one that finds
\* the mutex free again and again gets it (no thread starves on the mutex);
\* spurious wake-ups and timeouts are never owed.
CvSpec == CvInit /\ [][CvNext]_vars /\ \A t \in CvThreads : SF_vars(CvStep(t))

\* ------------------------------------------------------------- TimedEvent
\* Set(), statement by statement: if (m_flag.TestAndSet()), the
\* lock_guard's lock, its unlock, m_condvar.notify_one(), which wakes one
\* of the blocked threads if there is any
TimedEvent_Set(t) ==
  \/ /\ pc[t].at = "TestAndSet"
     /\ cv' = [cv EXCEPT !.m_flag = TRUE]
     /\ IF TestAndSet(cv.m_flag, TRUE) THEN Goto(t, "lock_guard") ELSE Return(t, "Set")
  \/ /\ pc[t].at = "lock_guard"
     /\ Lock(t, "unlock")
  \/ /\ pc[t].at = "unlock"
     /\ cv' = [cv EXCEPT !.m_mutex = "none"]
     /\ Goto(t, "cv_notify_one")
  \/ /\ pc[t].at = "cv_notify_one"
     /\ \/ cv.m_condvar = {} /\ UNCHANGED cv
        \/ \E u \in cv.m_condvar : cv' = [cv EXCEPT !.m_condvar = @ \ {u}]
     /\ Return(t, "Set")

\* variant: Wait and WaitFor test the flag without clearing it
TimedEvent_Wait_NoClear(t) ==
  \/ /\ pc[t].at = "TestAndClear"
     /\ IF cv.m_flag THEN Return(t, "signaled") ELSE Goto(t, "unique_lock")
     /\ UNCHANGED cv
  \/ /\ pc[t].at = "unique_lock"
     /\ Lock(t, "predicate")
  \/ /\ pc[t].at = "predicate"
     /\ IF cv.m_flag
          THEN cv' = [cv EXCEPT !.m_mutex = "none"] /\ Return(t, "signaled")
          ELSE UNCHANGED cv /\ Goto(t, "cv_wait")
  \/ /\ pc[t].at = "cv_wait"
     /\ cv' = [cv EXCEPT !.m_mutex = "none", !.m_condvar = @ \cup {t}]
     /\ Goto(t, "cv_blocked")
  \/ /\ pc[t].at = "cv_blocked"
     /\ t \notin cv.m_condvar
     /\ Goto(t, "unique_lock")
     /\ UNCHANGED cv
  \/ /\ pc[t].at = "timeout_lock"
     /\ Lock(t, "timeout_predicate")
  \/ /\ pc[t].at = "timeout_predicate"
     /\ cv' = [cv EXCEPT !.m_mutex = "none"]
     /\ Return(t, IF cv.m_flag THEN "signaled" ELSE "timed out")

\* Wait() and WaitFor(rel_time), statement by statement: the
\* m_flag.TestAndClear() before the lock; the unique_lock's lock (also the
\* reacquisition after a wake-up); the predicate m_flag.TestAndClear(),
\* tested with the mutex held, which ends the wait and releases lk when it
\* holds; the wait releasing the mutex and blocking in one step; a woken
\* thread going on to reacquire the mutex; and, for WaitFor after a
\* timeout, the reacquisition and the return of the predicate's value
TimedEvent_Wait(t) ==
  \/ /\ pc[t].at = "TestAndClear"
     /\ cv' = [cv EXCEPT !.m_flag = FALSE]
     /\ IF cv.m_flag THEN Return(t, "signaled") ELSE Goto(t, "unique_lock")
  \/ /\ pc[t].at = "unique_lock"
     /\ Lock(t, "predicate")
  \/ /\ pc[t].at = "predicate"
     /\ IF cv.m_flag
          THEN cv' = [cv EXCEPT !.m_mutex = "none", !.m_flag = FALSE] /\ Return(t, "signaled")
          ELSE UNCHANGED cv /\ Goto(t, "cv_wait")
  \/ /\ pc[t].at = "cv_wait"
     /\ cv' = [cv EXCEPT !.m_mutex = "none", !.m_condvar = @ \cup {t}]
     /\ Goto(t, "cv_blocked")
  \/ /\ pc[t].at = "cv_blocked"
     /\ t \notin cv.m_condvar
     /\ Goto(t, "unique_lock")
     /\ UNCHANGED cv
  \/ /\ pc[t].at = "timeout_lock"
     /\ Lock(t, "timeout_predicate")
  \/ /\ pc[t].at = "timeout_predicate"
     /\ cv' = [cv EXCEPT !.m_mutex = "none", !.m_flag = FALSE]
     /\ Return(t, IF cv.m_flag THEN "signaled" ELSE "timed out")

\* Reset(): m_flag.Clear()
TimedEvent_Reset(t) ==
  /\ pc[t].at = "Clear"
  /\ cv' = [cv EXCEPT !.m_flag = FALSE]
  /\ Return(t, "Reset")

\* a thread between calls calls Set(), Wait(), WaitFor(rel_time) or Reset()
TimedCall(t) ==
  /\ pc[t].at = "idle"
  /\ pc[t].calls < MaxCalls
  /\ \E f \in {"Set", "Wait", "WaitFor", "Reset"} :
       pc' = [pc EXCEPT ![t].at = CASE f = "Set" -> "TestAndSet"
                                    [] f = "Reset" -> "Clear"
                                    [] OTHER -> "TestAndClear",
                        ![t].f = f, ![t].calls = @ + 1]
  /\ UNCHANGED cv

\* Two threads calling Set, Wait, WaitFor and Reset on one TimedEvent.
TimedNext ==
  /\ \E t \in CvThreads :
       \/ TimedCall(t)
       \/ TimedEvent_Set(t)
       \/ TimedEvent_Wait(t)
       \/ TimedEvent_Reset(t)
       \/ CvSpurious(t)
       \/ CvWaitFor_timeout(t)
  /\ UNCHANGED <<mmu_vars, obs, wflag, hooks, aup, bus>>

TimedSpec == CvInit /\ [][TimedNext]_vars

\* ---------------------------------------------------------- HookableEvent
HookThreads == {"t1", "t2"}

\* what a registered callback does when it is invoked: nothing with the
\* event, or a Register on the same event, or the destruction of its own
\* EventHook
Callbacks == {"plain", "registers", "destroys"}

\* s without the element x (std::erase)
Erase(s, x) == SelectSeq(s, LAMBDA e : e # x)

\* variant: std::recursive_mutex, which its owner may lock again
HookLock_Recursive(t, to) ==
  /\ hooks.m_mutex \in {"none", t}
  /\ hooks' = [hooks EXCEPT !.m_mutex = t]
  /\ Goto(t, to)
  /\ UNCHANGED obs

\* std::lock_guard lock(m_mutex) on the storage mutex.  A std::mutex locked
\* by the thread that owns it is undefined behaviour: the thread blocks
\* forever, or lock() fails with resource_deadlock_would_occur, which ends
\* the calling function: out of Register the exception unwinds Trigger and
\* its lock_guard releases the mutex, out of the destructor it terminates
\* the program with the mutex held.
HookLock(t, to) ==
  \/ /\ hooks.m_mutex = "none"
     /\ hooks' = [hooks EXCEPT !.m_mutex = t]
     /\ Goto(t, to)
     /\ UNCHANGED obs
  \/ /\ hooks.m_mutex = t
     /\ Goto(t, "deadlocked")
     /\ UNCHANGED <<hooks, obs>>
  \/ /\ hooks.m_mutex = t
     /\ hooks' = [hooks EXCEPT !.m_mutex = IF pc[t].f = "Register" THEN "none" ELSE t]
     /\ Goto(t, "failed")
     /\ UNCHANGED obs

\* variant: the new listener is put in front of the others
Register_Front(t) ==
  \/ /\ pc[t].at = "make_unique"
     /\ hooks' = [hooks EXCEPT !.kind = Append(@, pc[t].value)]
     /\ pc' = [pc EXCEPT ![t].at = "Register_lock", ![t].value = Len(hooks.kind) + 1]
     /\ UNCHANGED obs
  \/ /\ pc[t].at = "Register_lock"
     /\ HookLock(t, "push_back")
  \/ /\ pc[t].at = "push_back"
     /\ hooks' = [hooks EXCEPT !.m_listeners = <<pc[t].value>> \o @,
                               !.m_mutex = "none",
                               !.held = @ \cup {pc[t].value}]
     /\ obs' = [obs EXCEPT !.order = Append(@, pc[t].value)]
     /\ Return(t, "Register")

\* Register(callback, name), statement by statement: make_unique<HookImpl>,
\* the lock_guard on the storage mutex, and push_back with the return of
\* the handle, which releases the mutex
Register(t) ==
  \/ /\ pc[t].at = "make_unique"
     /\ hooks' = [hooks EXCEPT !.kind = Append(@, pc[t].value)]
     /\ pc' = [pc EXCEPT ![t].at = "Register_lock", ![t].value = Len(hooks.kind) + 1]
     /\ UNCHANGED obs
  \/ /\ pc[t].at = "Register_lock"
     /\ HookLock(t, "push_back")
  \/ /\ pc[t].at = "push_back"
     /\ hooks' = [hooks EXCEPT !.m_listeners = Append(@, pc[t].value),
                               !.m_mutex = "none",
                               !.held = @ \cup {pc[t].value}]
     /\ obs' = [obs EXCEPT !.order = Append(@, pc[t].value)]
     /\ Return(t, "Register")

\* variant: RemoveHook erases the listener without taking the storage mutex
HookImpl_Destroy_NoLock(t) ==
  /\ pc[t].at = "RemoveHook_lock"
  /\ hooks' = [hooks EXCEPT !.m_listeners = Erase(@, pc[t].value),
                            !.destroyed = @ \cup {pc[t].value}]
  /\ Return(t, "~HookImpl")
  /\ UNCHANGED obs

\* ~HookImpl() of a handle whose event is alive: storage->RemoveHook(this),
\* which is the lock_guard on the storage mutex and std::erase; the
\* destructor returns once the mutex is released
HookImpl_Destroy(t) ==
  \/ /\ pc[t].at = "RemoveHook_lock"
     /\ HookLock(t, "erase")
  \/ /\ pc[t].at = "erase"
     /\ hooks' = [hooks EXCEPT !.m_listeners = Erase(@, pc[t].value),
                               !.m_mutex = "none",
                               !.destroyed = @ \cup {pc[t].value}]
     /\ Return(t, "~HookImpl")
     /\ UNCHANGED obs

\* the callback of the handle pc[t].h, running inside Trigger: it returns,
\* or it calls Register on the same event, or it destroys its own handle;
\* the loop of Trigger goes on when the call it makes returns
Callback(t) ==
  /\ pc[t].at = "m_function"
  /\ UNCHANGED obs
  /\ \/ /\ hooks.kind[pc[t].h] = "plain" \/ (hooks.kind[pc[t].h] = "destroys" /\ pc[t].h \notin hooks.held)
        /\ Goto(t, "for")
        /\ UNCHANGED hooks
     \/ /\ hooks.kind[pc[t].h] = "registers"
        /\ pc' = [pc EXCEPT ![t].at = "make_unique", ![t].f = "Register",
                            ![t].value = "plain", ![t].then = <<"for">>]
        /\ UNCHANGED hooks
     \/ /\ hooks.kind[pc[t].h] = "destroys"
        /\ pc[t].h \in hooks.held
        /\ hooks' = [hooks EXCEPT !.held = @ \ {pc[t].h}]
        /\ pc' = [pc EXCEPT ![t].at = "RemoveHook_lock", ![t].f = "~HookImpl",
                            ![t].value = pc[t].h, ![t].then = <<"for">>]

\* Trigger(args...), statement by statement: the lock_guard on the storage
\* mutex, then the loop over m_listeners calling each handle's m_function,
\* then the return, which releases the mutex
Trigger(t) ==
  \/ /\ pc[t].at = "Trigger_lock"
     /\ hooks.m_mutex = "none"
     /\ hooks' = [hooks EXCEPT !.m_mutex = t]
     /\ pc' = [pc EXCEPT ![t].at = "for", ![t].i = 1]
     /\ obs' = [obs EXCEPT !.snap[t] = hooks.m_listeners, !.invoked[t] = <<>>]
  \/ /\ pc[t].at = "for"
     /\ pc[t].i <= Len(hooks.m_listeners)
     /\ pc' = [pc EXCEPT ![t].at = "m_function", ![t].f = "Trigger",
                         ![t].h = hooks.m_listeners[pc[t].i], ![t].i = @ + 1]
     /\ obs' = [obs EXCEPT !.invoked[t] = Append(@, hooks.m_listeners[pc[t].i])]
     /\ UNCHANGED hooks
  \/ /\ pc[t].at = "for"
     /\ pc[t].i > Len(hooks.m_listeners)
     /\ hooks' = [hooks EXCEPT !.m_mutex = "none"]
     /\ pc' = [pc EXCEPT ![t].at = "idle", ![t].f = "Trigger", ![t].did = "Trigger"]
     /\ UNCHANGED obs

\* a thread between calls calls Trigger, or Register with some callback, or
\* destroys an EventHook that a Register has returned
HookCall(t) ==
  /\ pc[t].at = "idle"
  /\ pc[t].calls < MaxCalls
  /\ UNCHANGED obs
  /\ \/ /\ pc' = [pc EXCEPT ![t].at = "Trigger_lock", ![t].f = "Trigger", ![t].calls = @ + 1]
        /\ UNCHANGED hooks
     \/ /\ \E callback \in Callbacks :
             pc' = [pc EXCEPT ![t].at = "make_unique", ![t].f = "Register",
                              ![t].value = callback, ![t].calls = @ + 1]
        /\ UNCHANGED hooks
     \/ \E handle \in hooks.held :
          /\ hooks' = [hooks EXCEPT !.held = @ \ {handle}]
          /\ pc' = [pc EXCEPT ![t].at = "RemoveHook_lock", ![t].f = "~HookImpl",
                              ![t].value = handle, ![t].calls = @ + 1]

HookInit ==
  /\ MMUAtRest
  /\ pc = [t \in HookThreads |-> Started]
  /\ obs = [order |-> <<>>, snap |-> [t \in HookThreads |-> <<>>],
            invoked |-> [t \in HookThreads |-> <<>>]]
  /\ wflag = <<>>
  /\ cv = <<>>
  /\ hooks = [m_mutex |-> "none", m_listeners |-> <<>>, kind |-> <<>>, held |-> {},
              destroyed |-> {}]
  /\ aup = <<>>
  /\ bus = <<>>

\* Two threads calling Trigger and Register and destroying EventHooks.
HookNext ==
  /\ \E t \in HookThreads :
       \/ HookCall(t)
       \/ Register(t)
       \/ Trigger(t)
       \/ Callback(t)
       \/ HookImpl_Destroy(t)
  /\ UNCHANGED <<mmu_vars, wflag, cv, aup, bus>>

HookSpec == HookInit /\ [][HookNext]_vars

\* -------------------------------------------------------- AtomicUniquePtr
AupThreads == {"t1", "t2"}

\* variant: the exchange as a load followed by a store
Exchange_LoadThenStore(t) ==
  \/ /\ pc[t].at = "exchange"
     /\ pc' = [pc EXCEPT ![t].at = "exchange_store", ![t].h = aup.m_ptr]
     /\ UNCHANGED aup
  \/ /\ pc[t].at = "exchange_store"
     /\ aup' = [aup EXCEPT !.m_ptr = pc[t].value,
                           !.held[t] = (@ \ {pc[t].value}) \cup ({pc[t].h} \ {0}),
                           !.log = Append(@, <<pc[t].value, pc[t].h>>)]
     /\ IF pc[t].f = "Store" THEN Goto(t, "delete") ELSE Return(t, "Exchange")

\* Exchange(desired): m_ptr.exchange(desired.release(), acq_rel) in one
\* step; the pointer it returns is a UniquePtr of the calling thread.  In
\* Store the caller is Store itself, which lets the UniquePtr go out of
\* scope next.
Exchange(t) ==
  /\ pc[t].at = "exchange"
  /\ aup' = [aup EXCEPT !.m_ptr = pc[t].value,
                        !.held[t] = (@ \ {pc[t].value}) \cup ({aup.m_ptr} \ {0}),
                        !.log = Append(@, <<pc[t].value, aup.m_ptr>>)]
  /\ IF pc[t].f = "Store"
       THEN pc' = [pc EXCEPT ![t].at = "delete", ![t].h = aup.m_ptr]
       ELSE pc' = [pc EXCEPT ![t].at = "idle", ![t].did = "Exchange", ![t].h = aup.m_ptr]

\* Store(desired): the UniquePtr that Exchange returned is destructed,
\* which deletes the object it holds
Store(t) ==
  /\ pc[t].at = "delete"
  /\ aup' = [aup EXCEPT !.held[t] = @ \ {pc[t].h},
                        !.deleted = IF pc[t].h = 0 THEN @
                                    ELSE [@ EXCEPT ![pc[t].h] = @ + 1]]
  /\ Return(t, "Store")

\* a thread lets a UniquePtr go that an Exchange returned to it
Drop(t) ==
  /\ pc[t].at = "idle"
  /\ \E object \in aup.held[t] :
       aup' = [aup EXCEPT !.held[t] = @ \ {object}, !.deleted[object] = @ + 1]
  /\ UNCHANGED pc

\* a thread between calls calls Store or Exchange with a new object or
\* with nullptr; a new object is held by the UniquePtr it passes
AupCall(t) ==
  /\ pc[t].at = "idle"
  /\ pc[t].calls < MaxCalls
  /\ aup.alive
  /\ \E f \in {"Store", "Exchange"} :
       \/ /\ pc' = [pc EXCEPT ![t].at = "exchange", ![t].f = f, ![t].value = 0,
                              ![t].calls = @ + 1]
          /\ UNCHANGED aup
       \/ /\ pc' = [pc EXCEPT ![t].at = "exchange", ![t].f = f,
                              ![t].value = Len(aup.deleted) + 1, ![t].calls = @ + 1]
          /\ aup' = [aup EXCEPT !.deleted = Append(@, 0),
                                !.held[t] = @ \cup {Len(aup.deleted) + 1}]

\* ~AtomicUniquePtr(), once no call is in progress: Store(nullptr)
AtomicUniquePtr_Destroy(t) ==
  /\ aup.alive
  /\ \A u \in AupThreads : pc[u].at = "idle"
  /\ aup' = [aup EXCEPT !.alive = FALSE]
  /\ pc' = [pc EXCEPT ![t].at = "exchange", ![t].f = "Store", ![t].value = 0]

AupInit ==
  /\ MMUAtRest
  /\ pc = [t \in AupThreads |-> [Started EXCEPT !.value = 0]]
  /\ obs = <<>>
  /\ wflag = <<>>
  /\ cv = <<>>
  /\ hooks = <<>>
  /\ aup = [m_ptr |-> 0, alive |-> TRUE, held |-> [t \in AupThreads |-> {}],
            deleted |-> <<>>, log |-> <<>>]
  /\ bus = <<>>

\* Two threads calling Store and Exchange on one AtomicUniquePtr, which is
\* destroyed in the end.
AupNext ==
  /\ \E t \in AupThreads :
       \/ AupCall(t)
       \/ Exchange(t)
       \/ Store(t)
       \/ Drop(t)
       \/ AtomicUniquePtr_Destroy(t)
  /\ UNCHANGED <<mmu_vars, obs, wflag, cv, hooks, bus>>

AupSpec == AupInit /\ [][AupNext]_vars

\* ------------------------------------------------------------------ I2CBus
\* the slaves on the bus, each named by its 7-bit address
Slaves == {112}

\* the bytes the master clocks out: the slave's address with the write bit
\* and with the read bit, and the same for an address no slave has
I2CBytes == {224, 225, 66, 67}

\* I2CSlave::Matches(slave_addr): the address byte without its read/write
\* bit is the slave's address
Matches(slave, slave_addr) == slave_addr \div 2 = slave

\* I2CBusBase::GetSlave(slave_addr): the slaves that match, none for nullptr
GetSlave(slave_addr) == {slave \in Slaves : Matches(slave, slave_addr)}

\* GetSlave(i2c_address.value())
AddressedSlave(b) == IF b.i2c_address = <<>> THEN {} ELSE GetSlave(b.i2c_address[1])

\* the assertions made before a byte is written to or read from a slave,
\* those that fail
FailedAsserts(b) ==
  (IF b.device_address = <<>> THEN {"device_address.has_value()"} ELSE {})
    \cup (IF b.i2c_address = <<>> THEN {"i2c_address.has_value()"} ELSE {})
    \cup (IF AddressedSlave(b) = {} THEN {"slave != nullptr"} ELSE {})

\* Start() as it would be if it reset device_address as Stop() does
Start_ResetsDeviceAddress(b) ==
  [b EXCEPT !.state = "Activating", !.bit_counter = 0, !.current_byte = 0,
            !.i2c_address = <<>>, !.device_address = <<>>]

\* I2CBus::Start()
Start(b) ==
  [b EXCEPT !.state = "Activating", !.bit_counter = 0, !.current_byte = 0,
            !.i2c_address = <<>>]

\* I2CBus::Stop()
Stop(b) ==
  [b EXCEPT !.state = "Inactive", !.bit_counter = 0, !.current_byte = 0,
            !.i2c_address = <<>>, !.device_address = <<>>]

\* I2CBus::SCLRisingEdge(sda).  byte is what slave->ReadByte returns; with
\* no slave the call is made through a null pointer, which crashes or
\* yields any byte.
SCLRisingEdge(b, byte, crash) ==
  IF b.state = "ReadFromDevice" /\ b.bit_counter = 0
    THEN [b EXCEPT !.failed = @ \cup FailedAsserts(b),
                   !.state = IF AddressedSlave(b) = {} /\ crash THEN "Crashed" ELSE @,
                   !.current_byte = byte]
    ELSE b

\* SCLFallingEdge(sda), the eighth bit of a byte: b holds the whole byte
ByteWritten(b) ==
  CASE b.state = "SetI2CAddress" ->
         IF GetSlave(b.current_byte) # {} THEN [b EXCEPT !.state = "Inactive"] ELSE b
    [] b.state = "WriteDeviceAddress" ->
         [b EXCEPT !.device_address = <<b.current_byte>>]
    [] b.state = "WriteToDevice" ->
         IF AddressedSlave(b) = {}
           THEN [b EXCEPT !.failed = @ \cup FailedAsserts(b), !.state = "Inactive"]
           ELSE [b EXCEPT !.failed = @ \cup FailedAsserts(b),
                          !.written = <<b.device_address[1], b.current_byte>>,
                          !.device_address = <<(b.device_address[1] + 1) % 256>>]

\* SCLFallingEdge(sda), first half: the bit is shifted into current_byte
\* (a u8), or, after eight bits, the acknowledge bit is read
BitWritten(b, sda) ==
  IF b.state \notin {"SetI2CAddress", "WriteDeviceAddress", "WriteToDevice"} THEN b
  ELSE IF b.bit_counter = 8 THEN (IF sda THEN [b EXCEPT !.state = "Inactive"] ELSE b)
  ELSE IF b.bit_counter = 7
    THEN ByteWritten([b EXCEPT !.current_byte = (2 * @ + (IF sda THEN 1 ELSE 0)) % 256])
    ELSE [b EXCEPT !.current_byte = (2 * @ + (IF sda THEN 1 ELSE 0)) % 256]

\* the second half of SCLFallingEdge(sda) as it would be without the test of
\* device_address.has_value() before the bus starts to read
Advanced_NoDeviceCheck(b) ==
  IF b.state = "Activating" THEN [b EXCEPT !.state = "SetI2CAddress", !.bit_counter = 0]
  ELSE IF b.state = "Inactive" THEN b
  ELSE IF b.bit_counter < 8 THEN [b EXCEPT !.bit_counter = @ + 1]
  ELSE CASE b.state = "SetI2CAddress" ->
              IF b.current_byte % 2 = 0
                THEN [b EXCEPT !.bit_counter = 0, !.i2c_address = <<b.current_byte>>,
                               !.state = "WriteDeviceAddress", !.device_address = <<>>]
                ELSE [b EXCEPT !.bit_counter = 0, !.i2c_address = <<b.current_byte>>,
                               !.state = "ReadFromDevice"]
         [] b.state = "WriteDeviceAddress" ->
              [b EXCEPT !.bit_counter = 0, !.state = "WriteToDevice"]
         [] OTHER -> [b EXCEPT !.bit_counter = 0]

\* SCLFallingEdge(sda), second half: bit_counter and the state advance
Advanced(b) ==
  IF b.state = "Activating" THEN [b EXCEPT !.state = "SetI2CAddress", !.bit_counter = 0]
  ELSE IF b.state = "Inactive" THEN b
  ELSE IF b.bit_counter < 8 THEN [b EXCEPT !.bit_counter = @ + 1]
  ELSE CASE b.state = "SetI2CAddress" ->
              IF b.current_byte % 2 = 0
                THEN [b EXCEPT !.bit_counter = 0, !.i2c_address = <<b.current_byte>>,
                               !.state = "WriteDeviceAddress", !.device_address = <<>>]
                ELSE [b EXCEPT !.bit_counter = 0, !.i2c_address = <<b.current_byte>>,
                               !.state = IF b.device_address # <<>> THEN "ReadFromDevice"
                                         ELSE "Inactive"]
         [] b.state = "WriteDeviceAddress" ->
              [b EXCEPT !.bit_counter = 0, !.state = "WriteToDevice"]
         [] OTHER -> [b EXCEPT !.bit_counter = 0]

\* I2CBus::SCLFallingEdge(sda)
SCLFallingEdge(b, sda) == Advanced(BitWritten(b, sda))

\* I2CBus::Update(old_scl, new_scl, old_sda, new_sda)
Update(b, old_scl, new_scl, old_sda, new_sda, byte, crash) ==
  IF old_scl # new_scl /\ old_sda # new_sda THEN b
  ELSE IF old_scl = new_scl /\ old_sda = new_sda THEN b
  ELSE IF old_scl /\ new_scl
    THEN (IF old_sda /\ ~new_sda THEN Start(b) ELSE Stop(b))
  ELSE IF b.state = "Inactive" THEN b
  ELSE IF ~old_scl /\ new_scl THEN SCLRisingEdge(b, byte, crash)
  ELSE IF old_scl /\ ~new_scl THEN SCLFallingEdge(b, new_sda)
  ELSE b

\* the bits the master clocks out make up one of the bytes of I2CBytes,
\* most significant bit first
Clocked(b, sda) ==
  (b.state \in {"SetI2CAddress", "WriteDeviceAddress", "WriteToDevice"} /\ b.bit_counter < 8)
    => \E byte \in I2CBytes :
         (2 * b.current_byte + (IF sda THEN 1 ELSE 0)) % (2 ^ (b.bit_counter + 1))
           = byte \div (2 ^ (7 - b.bit_counter))

\* the owner of the bus moves a line, or both, and calls Update with the
\* lines as they were and as they are
CallUpdate ==
  /\ bus.state # "Crashed"
  /\ \E new_scl \in BOOLEAN, new_sda \in BOOLEAN, byte \in I2CBytes, crash \in BOOLEAN :
       /\ (bus.scl /\ ~new_scl /\ bus.sda = new_sda) => Clocked(bus, new_sda)
       /\ bus' = [Update(bus, bus.scl, new_scl, bus.sda, new_sda, byte, crash)
                    EXCEPT !.scl = new_scl, !.sda = new_sda]
  /\ UNCHANGED <<mmu_vars, pc, obs, wflag, cv, hooks, aup>>

I2CInit ==
  /\ MMUAtRest
  /\ pc = <<>>
  /\ obs = <<>>
  /\ wflag = <<>>
  /\ cv = <<>>
  /\ hooks = <<>>
  /\ aup = <<>>
  /\ bus = [state |-> "Inactive", bit_counter |-> 0, current_byte |-> 0,
            i2c_address |-> <<>>, device_address |-> <<>>, scl |-> TRUE, sda |-> TRUE,
            written |-> <<>>, failed |-> {}]

I2CNext == CallUpdate

I2CSpec == I2CInit /\ [][I2CNext]_vars

\* ------------------------------------------------------------------ claims
HostTryOps == {"HostTryRead", "HostTryWrite"}
HostOps == {"HostRead", "HostWrite", "HostTryRead", "HostTryWrite"}
\* the engine calls of the last operation that reached memory or a device
Performed(h) == h.out \in {"ram", "mmio"}
\* the bytes of the size-byte access at physical address pa
Cells(pa, size) == {Add32(pa, i) : i \in 0..(size - 1)}

\* C1: a 64-bit HostTryWrite at A, in any address space, first tries the high
\* word at A; if that sub-write is absent no sub-write and no engine call is
\* made at A+4 and the result is absent; if it is present the low word is
\* tried at A+4 and the result is that sub-write's result.
C1_Size64ShortCircuit ==
  (last.op = "HostTryWrite" /\ last.size = 8) =>
    /\ Len(last.sub) >= 1
    /\ last.sub[1].address = last.address
    /\ ~last.sub[1].present =>
         /\ Len(last.sub) = 1
         /\ ~last.present
         /\ \A i \in DOMAIN last.hw : last.hw[i].ea # Add32(last.address, 4)
    /\ last.sub[1].present =>
         /\ Len(last.sub) = 2
         /\ last.sub[2].address = Add32(last.address, 4)
         /\ last.present = last.sub[2].present
         /\ last.translated = last.sub[2].translated

\* a 64-bit HostTryWrite whose first sub-write failed has returned
C1_Witness ==
  /\ last.op = "HostTryWrite" /\ last.size = 8
  /\ Len(last.sub) = 1 /\ ~last.sub[1].present /\ ~last.present

\* C2, as claimed: a HostTryRead or HostTryWrite of any width that returns
\* absent has changed no byte of guest memory and raised no guest exception.
C2_AbsentLeavesGuestState ==
  [][(last'.op \in HostTryOps /\ ~last'.present) =>
       (mem' = mem /\ Exceptions' = Exceptions)]_vars

\* C2, amended: an absent HostTryRead or HostTryWrite has raised no guest
\* exception and left the page table alone, and has changed no byte of guest
\* memory unless it is a 64-bit HostTryWrite whose high-word sub-write at A
\* succeeded: then only the four bytes A resolves to may have changed.
C2_AbsentLeavesGuestStateButHighWord ==
  [][(last'.op \in HostTryOps /\ ~last'.present) =>
       /\ Exceptions' = Exceptions
       /\ pt' = pt
       /\ mem' # mem =>
            /\ last'.op = "HostTryWrite" /\ last'.size = 8
            /\ last'.sub[1].present /\ ~last'.sub[2].present
            /\ last'.hw[1].ea = last'.address
            /\ \A c \in DOMAIN mem :
                 mem'[c] # mem[c] => c \in Cells(last'.hw[1].pa, 4)]_vars

\* an absent 64-bit HostTryWrite has left its high word in memory
C2_Witness ==
  /\ last.op = "HostTryWrite" /\ last.size = 8 /\ ~last.present
  /\ Len(last.sub) = 2
  /\ ReadBE(mem, last.hw[1].pa, 4) = HighU32(last.var)

\* C3, as claimed: a 64-bit HostWrite at A whose first 32-bit sub-write failed
\* does not attempt the second sub-write at A+4.
C3_HostWriteShortCircuit ==
  (last.op = "HostWrite" /\ last.size = 8 /\ ~Performed(last.hw[1])) =>
    Len(last.hw) = 1

\* every address an operation can present to the translator
Probed == Addresses \cup {Add32(a, 4) : a \in Addresses}
\* the BAT table entry the translator consults for address a in mode flag
SideEntry(flag, a) ==
  (IF flag \in {"Opcode", "OpcodeNoException"} THEN m_ibat_table ELSE m_dbat_table)
    [a[1] \div 2]
Mapped(entry) == entry[2] % 2 = 1
\* the entry without its three flag bits, with the address's offset in its
\* 128 KiB page
BatPhysical(entry, a) ==
  <<BitOr(entry[1], a[1] % 2), BitOr(entry[2] - (entry[2] % 8), a[2])>>

\* C4: for every address whose 128 KiB page has a mapped entry in the BAT
\* table of the mode's side, TranslateAddress in every mode returns
\* BAT_TRANSLATED with physical address (entry AND BAT_RESULT_MASK) OR
\* (address AND (BAT_PAGE_SIZE - 1)), whatever the segment registers and the
\* page table hold, and leaves the page table as it was.
C4_BatHitTranslation ==
  \A flag \in XCheckTLBFlag, a \in Probed, srs \in SegmentConfigs,
     pts \in PageTables \cup {pt} :
    Mapped(SideEntry(flag, a)) =>
      LET r == TranslateAddress(flag, a, [Cur EXCEPT !.sr = srs, !.pt = pts])
      IN  /\ r.result = BAT_TRANSLATED
          /\ r.address = BatPhysical(SideEntry(flag, a), a)
          /\ r.pt = pts

\* a translation has hit a write-inhibited BAT entry: 0x80001000 -> 0x00001000
C4_Witness ==
  /\ last.op = "TranslateAddress"
  /\ last.tr[1].result = BAT_TRANSLATED
  /\ last.tr[1].wi
  /\ last.address = A_BAT /\ last.tr[1].address = A_RAM

\* the segment of address a is a direct-store segment
DirectStore(a) == sr[a[1] \div 4096].T
\* no valid page-table entry matches address a
NoMatchingPTE(a) ==
  LET s == sr[a[1] \div 4096]
      group == pt[PTEGIndex(s.VSID, EA_page_index(a))]
  IN  \A i \in DOMAIN group :
        ~(group[i].V /\ group[i].VSID = s.VSID /\ group[i].API = EA_API(a))

\* what C5 says of the accesses at an address whose translation fails: with
\* MSR.DR on, Read and Write raise DSI before they return, and the host's
\* NoException read returns zero from a failed engine call and raises nothing
C5_AccessFaults ==
  msr_DR =>
    /\ last'.op \in {"Read", "Write"} =>
         /\ "DSI" \in Exceptions'
         /\ last'.hw[1].out = "fault"
    /\ last'.op = "HostRead" =>
         /\ Exceptions' = Exceptions
         /\ last'.hw[1].out = "fault"
         /\ last'.value = Zero(last'.size)

\* C5, as claimed: an address with no mapped BAT entry and no matching valid
\* page-table entry translates to page-fault; with translation enabled Read
\* and Write raise DSI there, a NoException access fails without exception.
C5_PageFault ==
  [][/\ (last'.op = "TranslateAddress" /\ msr_DR
           /\ ~Mapped(SideEntry(last'.space, last'.address))
           /\ NoMatchingPTE(last'.address)) =>
          last'.tr[1].result = PAGE_FAULT
     /\ (last'.op \in {"Read", "Write", "HostRead"}
           /\ ~Mapped(SideEntry("Read", last'.address)) /\ NoMatchingPTE(last'.address)) =>
          C5_AccessFaults]_vars

\* C5, amended: such an address translates to page-fault unless its segment
\* is a direct-store segment, where the result is direct-store-segment; in
\* both cases, with translation enabled, Read and Write raise DSI and a
\* NoException access fails without exception.
C5_PageFaultOrDirectStore ==
  [][/\ (last'.op = "TranslateAddress" /\ msr_DR
           /\ ~Mapped(SideEntry(last'.space, last'.address))
           /\ NoMatchingPTE(last'.address)) =>
          last'.tr[1].result =
            IF DirectStore(last'.address) THEN DIRECT_STORE_SEGMENT ELSE PAGE_FAULT
     /\ (last'.op \in {"Read", "Write", "HostRead"}
           /\ ~Mapped(SideEntry("Read", last'.address)) /\ NoMatchingPTE(last'.address)) =>
          C5_AccessFaults]_vars

\* a guest Read has page-faulted outside any direct-store segment and DSI is raised
C5_Witness ==
  /\ last.op = "Read"
  /\ msr_DR /\ ~DirectStore(last.address)
  /\ last.hw[1].out = "fault"
  /\ "DSI" \in Exceptions

\* C6: a translation in mode NoException or OpcodeNoException, and the host
\* read that translates in NoException mode, raise no guest exception and
\* leave every page-table entry (its referenced and changed bits) as it was,
\* whether the address hits a BAT, hits the page table, lies in a direct-store
\* segment or faults.
C6_ProbeHasNoSideEffect ==
  [][((last'.op = "TranslateAddress" /\ IsNoExceptionFlag(last'.space))
        \/ last'.op = "HostRead") =>
       (pt' = pt /\ Exceptions' = Exceptions)]_vars

\* a NoException translation has hit a page-table entry and its referenced
\* bit is still clear
C6_Witness ==
  /\ last.op = "TranslateAddress" /\ last.space = "NoException"
  /\ last.tr[1].result = PAGE_TABLE_TRANSLATED
  /\ \E g \in DOMAIN pt : \E i \in DOMAIN pt[g] : pt[g][i].V /\ ~pt[g][i].R

\* C7: every engine call of a Host* access (HostRead, HostWrite, HostTryRead,
\* HostTryWrite; every address space and width) runs in NoException mode, and
\* the guest exception state after the access is what it was before it.
C7_HostAccessNeverRaises ==
  [][last'.op \in HostOps =>
       /\ Exceptions' = Exceptions
       /\ \A i \in DOMAIN last'.hw : last'.hw[i].flag = "NoException"]_vars

\* a host read has failed translation and no exception is pending
C7_Witness ==
  /\ last.op = "HostRead"
  /\ last.hw[1].out = "fault"
  /\ Exceptions = {}

\* address a translates, in NoException mode, to RAM
ResolvesToRAM(a) ==
  LET r == TranslateAddress("NoException", a, Cur)
  IN  Success(r) /\ IsRAM(r.address)

\* C8, as claimed: in the Virtual address space HostTryRead and HostTryWrite
\* return absent without any engine call when MSR.DR is off, and return a
\* present result with translated = true when MSR.DR is on and the address
\* resolves to RAM.
C8_VirtualSpace ==
  [][(last'.op \in HostTryOps /\ last'.space = "Virtual") =>
       /\ ~msr_DR => (~last'.present /\ last'.hw = <<>>)
       /\ (msr_DR /\ ResolvesToRAM(last'.address)) =>
            (last'.present /\ last'.translated)]_vars

\* C8, amended: as claimed, except that a 64-bit HostTryWrite is present (with
\* translated = true) when both A and A+4 resolve to RAM.
C8_VirtualSpaceBothWords ==
  [][(last'.op \in HostTryOps /\ last'.space = "Virtual") =>
       /\ ~msr_DR => (~last'.present /\ last'.hw = <<>>)
       /\ (/\ msr_DR
           /\ ResolvesToRAM(last'.address)
           /\ (last'.op = "HostTryWrite" /\ last'.size = 8) =>
                ResolvesToRAM(Add32(last'.address, 4))) =>
            (last'.present /\ last'.translated)]_vars

\* a Virtual-space read with MSR.DR on has returned data written before it
C8_Witness ==
  /\ last.op = "HostTryRead" /\ last.space = "Virtual"
  /\ msr_DR
  /\ last.present /\ last.translated
  /\ last.value # Zero(last.size)

\* the data BAT entry of 0x80000000-0x8001FFFF: physical page 0, mapped and
\* physical flags set
C9_Scenario == m_dbat_table[16384] = <<0, BAT_MAPPED_BIT + BAT_PHYSICAL_BIT>>
\* a 32-bit Effective-space read at 0x80001000 follows a 32-bit
\* Effective-space write there
C9_WriteThenRead ==
  /\ last.op = "HostTryWrite" /\ last.space = "Effective"
  /\ last.size = 4 /\ last.address = A_BAT
  /\ last'.op = "HostTryRead" /\ last'.space = "Effective"
  /\ last'.size = 4 /\ last'.address = A_BAT

\* C9, as claimed: under that BAT entry a successful 32-bit write of V at
\* 0x80001000 followed by a 32-bit read there returns V with translated = false.
C9_BatRoundTripUntranslated ==
  [][(C9_Scenario /\ C9_WriteThenRead /\ last.present) =>
       (last'.present /\ last'.value = last.var /\ ~last'.translated)]_vars

\* C9, amended: under that BAT entry and with MSR.DR on, the write succeeds
\* and the read returns V with translated = true.
C9_BatRoundTripTranslated ==
  [][(C9_Scenario /\ msr_DR /\ C9_WriteThenRead) =>
       /\ last.present /\ last.translated
       /\ last'.present /\ last'.value = last.var /\ last'.translated]_vars

\* 0xDEADBEEF has been read back through the BAT mapping
C9_Witness ==
  /\ C9_Scenario /\ msr_DR
  /\ last.op = "HostTryRead" /\ last.space = "Effective"
  /\ last.size = 4 /\ last.address = A_BAT
  /\ last.present /\ last.value = Truncate(V2, 4)

\* C10: for every width, every aligned RAM address A and every value V, a
\* Physical-space HostTryWrite of V at A succeeds and a Physical-space
\* HostTryRead of the same width at A right after it returns V.
C10_PhysicalRoundTrip ==
  [][(/\ last.op = "HostTryWrite" /\ last.space = "Physical"
      /\ IsRAM(last.address) /\ Aligned(last.address, last.size)
      /\ last'.op = "HostTryRead" /\ last'.space = "Physical"
      /\ last'.size = last.size /\ last'.address = last.address) =>
       /\ last.present
       /\ last'.present /\ last'.value = last.var /\ ~last'.translated]_vars

\* a 64-bit Physical-space read has returned 0x0123456789ABCDEF
C10_Witness ==
  /\ last.op = "HostTryRead" /\ last.space = "Physical"
  /\ last.size = 8 /\ last.present /\ last.value = V1

\* C11: the contents of the instruction and data BAT tables change only inside
\* DBATUpdated, IBATUpdated or SDRUpdated: no read, write, host access or other
\* operation the MMU exposes modifies a BAT table entry, and there is no other
\* path from outside to the tables.
C11_BatTablesChangeOnlyOnNotification ==
  [][(m_dbat_table' # m_dbat_table \/ m_ibat_table' # m_ibat_table)
       => last'.op \in {"DBATUpdated", "IBATUpdated", "SDRUpdated"}]_vars

\* C12: rebuilding a BAT table is idempotent: of two consecutive rebuilds with
\* the same BAT registers and the same fake-MMU setting, the second leaves
\* every entry of the table as the first left it.
C12_RebuildIdempotent ==
  [][/\ (last.op = "DBATUpdated" /\ last'.op = "DBATUpdated" /\ dbat_regs' = dbat_regs)
          => m_dbat_table' = m_dbat_table
     /\ (last.op = "IBATUpdated" /\ last'.op = "IBATUpdated" /\ ibat_regs' = ibat_regs)
          => m_ibat_table' = m_ibat_table]_vars
\* a second rebuild in a row has run on a table with a mapped entry
C12_Witness ==
  /\ last.op = "DBATUpdated"
  /\ last.again
  /\ \E p \in BatPages : Mapped(m_dbat_table[p]) /\ m_dbat_table[p][2] >= BAT_WI_BIT

\* the entries of table keep the mapped bit wherever another flag bit is set
FlagsImplyMapped(table) ==
  \A p \in DOMAIN table :
    BitAnd(table[p][2], BAT_PHYSICAL_BIT + BAT_WI_BIT) # 0 => Mapped(table[p])
\* the entries of table outside every range of regs are not mapped
UncoveredUnmapped(table, regs) ==
  \A p \in DOMAIN table : BatCovers(regs, p) = {} => ~Mapped(table[p])

\* C13, as claimed: after any sequence of BAT register writes and rebuilds,
\* every BAT table entry of a page outside all configured BAT ranges has the
\* mapped bit clear, and no entry has the physical or the write-inhibited bit
\* set without the mapped bit.
C13_UnmappedOutsideRanges ==
  /\ UncoveredUnmapped(m_dbat_table, dbat_regs)
  /\ UncoveredUnmapped(m_ibat_table, ibat_regs)
  /\ FlagsImplyMapped(m_dbat_table)
  /\ FlagsImplyMapped(m_ibat_table)
\* C13, amended: the same of the entries outside all configured ranges when
\* the fake-MMU mode is off (in that mode every page is mapped onto itself),
\* and of the flag bits in both modes.
C13_UnmappedOutsideRangesUnlessFake ==
  /\ ~fake_vmem => UncoveredUnmapped(m_dbat_table, dbat_regs)
  /\ ~fake_vmem => UncoveredUnmapped(m_ibat_table, ibat_regs)
  /\ FlagsImplyMapped(m_dbat_table)
  /\ FlagsImplyMapped(m_ibat_table)
\* a register write has been notified with the fake-MMU mode off, and the
\* data table has a mapped write-inhibited entry and an unmapped one
C13_Witness ==
  /\ ~fake_vmem
  /\ last.op = "DBATUpdated"
  /\ dbat_regs[1].WI
  /\ \E p \in BatPages : BatCovers(dbat_regs, p) = {} /\ ~Mapped(m_dbat_table[p])
  /\ \E p \in BatPages : BitAnd(m_dbat_table[p][2], BAT_WI_BIT) # 0

\* the guest call op on machine state s
GuestCall(op, size, var, address, s) ==
  CASE op = "Read" -> Read(size, address, s)
    [] op = "Write" -> IF size = 8 THEN Write_Size64(var, address, s)
                       ELSE Write(size, var, address, s)
    [] op = "Read_Opcode" -> Read_Opcode(address, s)
\* the translation mode of the guest call op
GuestFlag(op) ==
  CASE op = "Read" -> "Read" [] op = "Write" -> "Write" [] op = "Read_Opcode" -> "Opcode"
\* the machine as it is, but with the segment of address a paged and the page
\* table empty: a translation of a that misses the BATs is a page fault
PageFaultAt(a) ==
  [Cur EXCEPT !.sr = [sr EXCEPT ![a[1] \div 4096].T = FALSE],
              !.pt = [g \in DOMAIN pt |-> <<PTE_NONE, PTE_NONE>>]]

\* C14: a translation that lands in a direct-store segment is a failure as a
\* page fault is: Success() is false for DIRECT_STORE_SEGMENT and PAGE_FAULT
\* and true for BAT_TRANSLATED and PAGE_TABLE_TRANSLATED, and a Read, Write or
\* Read_Opcode whose translation ends in a direct-store segment raises the
\* exception (DSI for data, ISI for an instruction) and leaves the exception
\* set that a page fault at that address raises and leaves.
C14_DirectStoreIsFailure ==
  [][/\ ~Success([result |-> DIRECT_STORE_SEGMENT]) /\ ~Success([result |-> PAGE_FAULT])
     /\ Success([result |-> BAT_TRANSLATED]) /\ Success([result |-> PAGE_TABLE_TRANSLATED])
     /\ ( /\ last'.op \in {"Read", "Write", "Read_Opcode"}
          /\ IF last'.op = "Read_Opcode" THEN msr_IR ELSE msr_DR
          /\ TranslateAddress(GuestFlag(last'.op), last'.address, Cur).result
               = DIRECT_STORE_SEGMENT )
        => /\ TranslateAddress(GuestFlag(last'.op), last'.address,
                               PageFaultAt(last'.address)).result = PAGE_FAULT
           /\ (IF last'.op = "Read_Opcode" THEN "ISI" ELSE "DSI") \in Exceptions'
           /\ Exceptions' = GuestCall(last'.op, last'.size, last'.var, last'.address,
                                      PageFaultAt(last'.address)).s.exc
           /\ last'.hw[1].out = "fault"]_vars
\* an instruction fetch in a direct-store segment has raised ISI, after a data
\* access there raised DSI
C14_Witness ==
  /\ last.op = "Read_Opcode"
  /\ msr_DR /\ msr_IR
  /\ DirectStore(last.address)
  /\ last.hw[1].out = "fault"
  /\ Exceptions = {"DSI", "ISI"}

\* the host's Try call op in address space space on machine state s
HostTryCall(op, size, var, address, space, s) ==
  CASE op = "HostTryRead" -> HostTryRead(size, address, space, s)
    [] op = "HostTryWrite" -> IF size = 8 THEN HostTryWrite_Size64(var, address, space, s)
                              ELSE HostTryWrite(size, var, address, space, s)
\* what a call's result record r shows to its caller and leaves in the guest
Outcome(r) ==
  [present |-> r.present, translated |-> r.translated, value |-> r.value,
   mem |-> r.s.mem, exc |-> r.s.exc, pt |-> r.s.pt, alert |-> r.s.alert,
   hw |-> [i \in DOMAIN r.s.hw |-> [k |-> r.s.hw[i].k, pa |-> r.s.hw[i].pa,
                                     size |-> r.s.hw[i].size, out |-> r.s.hw[i].out]]]
\* the machine as it is, but with one fixed mapping whatever its own is: a
\* BAT on 0x80000000-0x8003FFFF and a page-table entry for 0x00001000
Remapped ==
  [Cur EXCEPT !.dbat = BATUpdated(EmptyBatTable,
                                  <<BatReg(TRUE, 16384, 1, 0, TRUE), BAT_OFF>>, FALSE),
              !.pt = [g \in 0..(PTEG_COUNT - 1) |->
                        IF g = PTEGIndex(0, 1)
                        THEN <<PTE_NONE, PTE(TRUE, 0, 0, 1, FALSE, FALSE)>>
                        ELSE <<PTE_NONE, PTE_NONE>>]]

\* C15: with MSR.DR clear a host access in the Effective address space is a
\* physical access: for every address, HostTryRead and HostTryWrite in
\* Effective space give the result (presence, translated flag, value) and
\* leave the memory, exceptions and engine calls that the same call in
\* Physical space gives and leaves, and the outcome is the one the call has
\* on a machine with other BAT tables and another page table.
C15_EffectiveIsPhysicalWhenDROff ==
  [][(last'.op \in HostTryOps /\ last'.space = "Effective" /\ ~msr_DR) =>
       /\ Outcome(HostTryCall(last'.op, last'.size, last'.var, last'.address,
                              "Physical", Cur))
            = [present |-> last'.present, translated |-> last'.translated,
               value |-> last'.value, mem |-> mem', exc |-> Exceptions', pt |-> pt',
               alert |-> last'.alert,
               hw |-> [i \in DOMAIN last'.hw |->
                         [k |-> last'.hw[i].k, pa |-> last'.hw[i].pa,
                          size |-> last'.hw[i].size, out |-> last'.hw[i].out]]]
       /\ pt' = pt
       /\ LET r == HostTryCall(last'.op, last'.size, last'.var, last'.address,
                               "Effective", Remapped)
          IN  /\ r.present = last'.present /\ r.translated = last'.translated
              /\ r.value = last'.value /\ r.s.mem = mem' /\ r.s.pt = Remapped.pt]_vars
\* with MSR.DR clear an Effective host read has returned what an Effective
\* host write stored, and the address is one the data BAT table maps
C15_Witness ==
  /\ ~msr_DR
  /\ last.op = "HostTryRead" /\ last.space = "Effective"
  /\ last.present /\ last.value # Zero(last.size)
  /\ \E p \in BatPages : Mapped(m_dbat_table[p])

\* the engine calls of the guest Write of var at address on machine state s,
\* without the hook
BareWrite(size, var, address, s) ==
  IF size = 8
  THEN WriteToHardware("Write", FALSE, Add32(address, 4), AsU32(var), 4,
                       WriteToHardware("Write", FALSE, address, HighU32(var), 4, s))
  ELSE WriteToHardware("Write", FALSE, address, AsU32(var), size, s)
\* the part of var that the i-th engine call of a size-byte Write is given
WrittenBy(i, size, var) ==
  IF size = 8 THEN (IF i = 1 THEN HighU32(var) ELSE AsU32(var)) ELSE var

\* C16: the memory-breakpoint hook never alters the outcome of a guest access:
\* for every address and value, Read returns the value the hardware read
\* produces and leaves the memory, page table and exceptions it leaves, and
\* Write leaves what the hardware writes of the value passed in leave, with
\* that value in the bytes written, whether or not the hook asks for a break.
C16_MemcheckLeavesOutcome ==
  [][/\ last'.op = "Read" =>
          /\ last'.value
               = ReadFromHardware("Read", last'.size, FALSE, last'.address, Cur).value
          /\ mem' = mem
          /\ Exceptions'
               = ReadFromHardware("Read", last'.size, FALSE, last'.address, Cur).s.exc
          /\ Len(last'.mc) = 1 /\ last'.mc[1].var = last'.value
     /\ last'.op = "Write" =>
          /\ mem' = BareWrite(last'.size, last'.var, last'.address, Cur).mem
          /\ Exceptions' = BareWrite(last'.size, last'.var, last'.address, Cur).exc
          /\ last'.hw = BareWrite(last'.size, last'.var, last'.address, Cur).hw
          /\ Len(last'.mc) = 1 /\ last'.mc[1].var = last'.var
          /\ \A i \in DOMAIN last'.hw :
               last'.hw[i].out = "ram" =>
                 ReadBE(mem', last'.hw[i].pa, last'.hw[i].size)
                   = WrittenBy(i, last'.size, last'.var)]_vars
\* a Read on which the hook asked for a break has returned the non-zero value
\* found in RAM
C16_Witness ==
  /\ last.op = "Read"
  /\ last.brk
  /\ last.hw[1].out = "ram"
  /\ last.value # Zero(last.size)

\* C17: the memory-breakpoint hook is invoked only for addresses that were
\* read or written: a guest Read or Write whose translation fails (page fault
\* or direct-store segment) does not invoke the hook for that address.
C17_HookOnlyAfterSuccess ==
  (last.op \in {"Read", "Write"} /\ last.hw[1].out = "fault") =>
    \A i \in DOMAIN last.mc : last.mc[i].address # last.address

LineOf(pa) == {<<pa[1], (pa[2] - (pa[2] % CACHE_LINE_SIZE)) + i>> : i \in 0..31}
\* the outcome of the one translation ClearDCacheLine of address a makes
LineTarget(a) ==
  IF msr_DR THEN Translated(TranslateAddress("Write", a, Cur))
  ELSE [ok |-> TRUE, pa |-> a, pt |-> pt]

\* C19: ClearDCacheLine on an address whose translation succeeds resolves
\* the translation once and zero-fills the 32 bytes of the 32-byte-aligned
\* cache line that holds the address, leaving every byte of memory outside
\* that line as it was; if the translation fails no byte of memory changes.
C19_ClearDCacheLine ==
  [][last'.op = "ClearDCacheLine" =>
       /\ Len(last'.hw) = 1
       /\ last'.hw[1].pa = LineTarget(last'.address).pa
       /\ (last'.hw[1].out = "fault") = ~LineTarget(last'.address).ok
       /\ last'.hw[1].out # "fault" =>
            mem' = [c \in DOMAIN mem |->
                      IF c \in LineOf(last'.hw[1].pa) /\ IsRAM(last'.hw[1].pa)
                      THEN 0 ELSE mem[c]]
       /\ last'.hw[1].out = "fault" => mem' = mem]_vars
\* a line reached through a translation has been cleared: its 32 bytes are
\* zero, and the bytes before and after it are not
C19_Witness ==
  /\ last.op = "ClearDCacheLine"
  /\ msr_DR
  /\ last.hw[1].out = "ram"
  /\ \A c \in LineOf(last.hw[1].pa) : c \in DOMAIN mem /\ mem[c] = 0
  /\ \A c \in DOMAIN mem \ LineOf(last.hw[1].pa) : mem[c] # 0

\* C20: no memory access overlaps a BAT-table rebuild: in every interleaving
\* of the CPU thread and a host thread that calls the Host functions while it
\* holds the CPU thread guard, each access finds the CPU thread outside a
\* rebuild and a data BAT table that is entirely the table of the registers
\* as they are, never a cleared one not yet refilled.
C20_NoAccessDuringRebuild ==
  [][(steps' # steps /\ last'.op \in {"HostTryRead", "Read"}) =>
       /\ cpu # "rebuilding"
       /\ m_dbat_table = BATUpdated(EmptyBatTable, dbat_regs, fake_vmem)
       /\ m_dbat_table' = m_dbat_table]_vars
\* under the guard, a host read has gone through a BAT that the CPU thread
\* configured and rebuilt before it was paused
C20_Witness ==
  /\ cpu = "paused"
  /\ last.op = "HostTryRead"
  /\ dbat_regs # <<BAT_OFF, BAT_OFF>>
  /\ last.present /\ last.translated
  /\ last.hw[1].pa # last.address

\* C23: on the atomic WaitableFlag, Set(value) stores the value and then
\* unblocks every thread blocked in Wait, and Reset() stores false and
\* unblocks nobody: a thread blocked in Wait(false) stays blocked over a
\* Reset() and is unblocked by the notify of a Set.
C23_SetNotifiesResetDoesNot ==
  [][\A t \in FlagThreads :
       /\ (pc[t].at = "Set" /\ pc'[t].at # "Set")
            => wflag' = [wflag EXCEPT !.m_flag = pc[t].value]
       /\ (pc[t].at = "notify_all" /\ pc'[t].at # "notify_all")
            => wflag' = [wflag EXCEPT !.blocked = {}]
       /\ (pc[t].at = "Reset" /\ pc'[t].at # "Reset")
            => wflag' = [wflag EXCEPT !.m_flag = FALSE]]_vars

\* a thread is still blocked in Wait(false) after another thread's Reset()
\* has made the flag false
C23_Witness ==
  \E t \in FlagThreads :
    /\ t \in wflag.blocked
    /\ pc[t].value = FALSE
    /\ wflag.m_flag = FALSE
    /\ \A u \in FlagThreads \ {t} : pc[u].at = "idle" /\ pc[u].did = "Reset"

\* C21: with one producer that publishes before Set() and one consumer that
\* loops Wait() and then reads all published data, published data never
\* stays unread: the consumer is not left blocked in Wait() with unread
\* data, also when the Reset of Wait() has cleared the flag of a later Set().
C21_NoUnreadDataLeft ==
  (obs.published > obs.consumed) ~> (obs.consumed = obs.published)

\* the Reset of Wait() ran between the store and the notify of a Set(): the
\* flag is false again and that Set() has nothing left to signal
C21_Witness ==
  /\ pc["consumer"].at = "load"
  /\ pc["producer"].at = "notify_all"
  /\ wflag.m_flag = FALSE
  /\ obs.published > obs.consumed

\* a thread is inside Wait(v) or WaitFor(v, t)
InWait(t, v) == pc[t].f \in {"Wait", "WaitFor"} /\ pc[t].at # "idle" /\ pc[t].value = v

\* a Set that changed the flag has its notify still to come
NotifyPending == \E u \in CvThreads : pc[u].at \in {"lock_guard", "unlock", "cv_notify_all"}

\* C22: the WaitableFlag on a mutex and a condition variable loses no
\* wake-up: a thread blocked on the condition variable while the flag has
\* the value it waits for always has a notify still to come (the change and
\* the notify never both fall between its predicate test and its blocking),
\* and no thread stays inside Wait(v) or WaitFor(v, t) forever once the
\* flag stays v.
C22_NoLostWakeup ==
  /\ [](\A t \in CvThreads :
          (t \in cv.m_condvar /\ cv.m_flag = pc[t].value) => NotifyPending)
  /\ \A t \in CvThreads, v \in BOOLEAN : []<>(~(InWait(t, v) /\ cv.m_flag = v))

\* a thread is blocked in Wait(v) and another thread's Set(v) has changed
\* the flag and is about to notify
C22_Witness ==
  \E t \in CvThreads, u \in CvThreads :
    /\ pc[t].f = "Wait"
    /\ t \in cv.m_condvar
    /\ cv.m_flag = pc[t].value
    /\ pc[u].at = "cv_notify_all"

\* C24: once the destructor of an EventHook has returned, the callback of
\* that handle is not running and is never invoked again, in every
\* interleaving of Trigger, Register and handle destruction: no thread is
\* inside the callback of a destroyed handle.
C24_NoCallbackAfterDestruction ==
  \A t \in HookThreads :
    pc[t].at = "m_function" => pc[t].h \notin hooks.destroyed

\* a destructor waits for the storage mutex while a Trigger on another
\* thread is running that handle's callback
C24_Witness ==
  \E t \in HookThreads, u \in HookThreads :
    /\ pc[t].at = "m_function"
    /\ pc[u].at = "RemoveHook_lock"
    /\ pc[u].value = pc[t].h

\* thread t has called Register or a handle's destructor from inside a
\* callback that Trigger is running on t
Nested(t) == pc[t].then # <<>> \/ (pc[t].at = "for" /\ pc[t].f # "Trigger")

InOrder(s) == SelectSeq(obs.order, LAMBDA h : \E k \in DOMAIN s : s[k] = h)

\* C28: a Trigger invokes the callbacks of the hooks that are registered
\* when it acquires the storage lock, each once and in registration order,
\* and of no removed hook; the list does not change while the Trigger
\* holds the lock.
C28_TriggerInvokesRegisteredInOrder ==
  \A t \in HookThreads :
    (pc[t].f = "Trigger" /\ pc[t].at \in {"for", "m_function"})
      => /\ hooks.m_listeners = obs.snap[t]
         /\ obs.invoked[t] = SubSeq(obs.snap[t], 1, pc[t].i - 1)
         /\ obs.snap[t] = InOrder(obs.snap[t])
         /\ \A k \in DOMAIN obs.snap[t] : obs.snap[t][k] \notin hooks.destroyed

\* a Trigger has invoked the callbacks of two hooks, which two threads
\* registered in the order opposite to that of their make_unique calls
C28_Witness ==
  \E t \in HookThreads :
    /\ pc[t].f = "Trigger"
    /\ pc[t].at = "for"
    /\ obs.invoked[t] = <<2, 1>>
    /\ pc[t].i = 3

\* C26: the translated flag of a successful HostTryRead or HostTryWrite
\* follows from the requested address space and MSR.DR alone: false for
\* Physical, true for Virtual, MSR.DR for Effective, however the address
\* resolved.
C26_TranslatedFlagBySpace ==
  (last.op \in {"HostTryRead", "HostTryWrite"} /\ last.present)
    => last.translated = CASE last.space = "Physical" -> FALSE
                           [] last.space = "Virtual" -> TRUE
                           [] last.space = "Effective" -> msr_DR

\* a successful forced-physical HostTryRead while MSR.DR is on reports
\* translated = false
C26_Witness ==
  /\ last.op = "HostTryRead"
  /\ last.present
  /\ last.space = "Physical"
  /\ msr_DR
  /\ ~last.translated

\* thread t returns from Wait() or WaitFor() in this step, with result did
WaitReturns(t, did) ==
  /\ pc[t].f \in {"Wait", "WaitFor"}
  /\ pc[t].at # "idle"
  /\ pc'[t].at = "idle"
  /\ pc'[t].did = did

\* C27: a Wait() or WaitFor() of a TimedEvent returns success only in a
\* step that finds the flag set and clears it, so the Set() calls made
\* since the last success release one Wait and the next one blocks until a
\* further Set(); WaitFor returns false only having consumed no signal;
\* only Set() sets the flag, and Reset() leaves it clear.
C27_SignalsConsumedOnce ==
  [][\A t \in CvThreads :
       /\ WaitReturns(t, "signaled") => (cv.m_flag /\ ~cv'.m_flag)
       /\ WaitReturns(t, "timed out") => (~cv.m_flag /\ ~cv'.m_flag)
       /\ (pc[t].at = "Clear" /\ pc'[t].at = "idle") => ~cv'.m_flag
       /\ (~cv.m_flag /\ cv'.m_flag) => \E u \in CvThreads : pc[u].at = "TestAndSet"]_vars

\* after two Set() calls one Wait() has returned and the next one is blocked
C27_Witness ==
  \E t \in CvThreads, u \in CvThreads :
    /\ pc[u].at = "idle" /\ pc[u].did = "Set" /\ pc[u].calls = 2
    /\ pc[t].f = "Wait" /\ pc[t].did = "signaled" /\ pc[t].calls = 2
    /\ t \in cv.m_condvar
    /\ ~cv.m_flag

\* the parties that own object: the AtomicUniquePtr when m_ptr points to
\* it, and each thread holding it in a UniquePtr
Owners(object) ==
  (IF aup.m_ptr = object THEN {"m_ptr"} ELSE {}) \cup {t \in AupThreads : object \in aup.held[t]}

\* C29: under every interleaving of Store and Exchange calls followed by
\* the destruction of the AtomicUniquePtr, each object handed to it has
\* exactly one owner until it is deleted and none after, is deleted at most
\* once, and is deleted once everything is destroyed; and each Exchange
\* returns the pointer installed by the exchange just before it.
C29_OwnedOnceDeletedOnce ==
  /\ \A object \in DOMAIN aup.deleted :
       Cardinality(Owners(object)) + aup.deleted[object] = 1
  /\ \A k \in DOMAIN aup.log :
       aup.log[k][2] = IF k = 1 THEN 0 ELSE aup.log[k - 1][1]
  /\ (~aup.alive /\ \A t \in AupThreads : pc[t].at = "idle") => aup.m_ptr = 0

\* the AtomicUniquePtr is destroyed after each thread handed it two
\* objects, nobody holds a UniquePtr any more and every object is deleted
C29_Witness ==
  /\ ~aup.alive
  /\ \A t \in AupThreads : pc[t].at = "idle" /\ aup.held[t] = {}
  /\ Len(aup.deleted) = 4
  /\ \A object \in DOMAIN aup.deleted : aup.deleted[object] = 1
  /\ \E k \in DOMAIN aup.log : pc["t1"].did = "Exchange" /\ aup.log[k][2] # 0

\* C30: the assertions of the I2C bus hold in every reachable state:
\* whenever a data byte is completed in WriteToDevice or a byte is started
\* in ReadFromDevice, i2c_address and device_address hold a value and a
\* slave matching i2c_address is on the bus.
C30_BusAssertionsHold == bus.failed = {}

\* Update is called for a falling edge of SCL with SDA held
FallingEdge == bus.scl /\ ~bus'.scl /\ bus.sda = bus'.sda

\* C31: when the eighth bit of the address byte is clocked in during
\* SetI2CAddress, the bus goes Inactive exactly when no slave on the bus
\* matches the byte; and an i2c_address that is latched corresponds to a
\* slave present on the bus.
C31_NackExactlyWhenUnknown ==
  [][/\ (FallingEdge /\ bus.state = "SetI2CAddress" /\ bus.bit_counter = 7)
          => (bus'.state = "Inactive" <=> GetSlave(bus'.current_byte) = {})
     /\ bus'.i2c_address # <<>> => AddressedSlave(bus') # {}]_vars

\* C32: whatever the state of the bus, SDA falling while SCL stays high
\* makes the state Activating, zeroes bit_counter and current_byte, clears
\* i2c_address and leaves device_address as it was; SDA rising while SCL
\* stays high makes the state Inactive, zeroes bit_counter and
\* current_byte and clears both i2c_address and device_address.
C32_StartAndStopConditions ==
  [][(bus.scl /\ bus'.scl) =>
       /\ (bus.sda /\ ~bus'.sda) =>
             /\ bus'.state = "Activating"
             /\ bus'.bit_counter = 0
             /\ bus'.current_byte = 0
             /\ bus'.i2c_address = <<>>
             /\ bus'.device_address = bus.device_address
       /\ (~bus.sda /\ bus'.sda) =>
             /\ bus'.state = "Inactive"
             /\ bus'.bit_counter = 0
             /\ bus'.current_byte = 0
             /\ bus'.i2c_address = <<>>
             /\ bus'.device_address = <<>>]_vars

\* a repeated start has left the device address written before it in place
C32_Witness ==
  /\ bus.state = "Activating"
  /\ bus.device_address # <<>>
  /\ bus.scl /\ ~bus.sda

\* C33: the bus enters ReadFromDevice only with a device address: an
\* address byte with the read bit set that is completed while
\* device_address holds no value (as it does when none has been written
\* since the last stop condition) makes the bus Inactive, and in every
\* step into ReadFromDevice, and in ReadFromDevice, device_address holds a
\* value.
C33_ReadNeedsDeviceAddress ==
  [][/\ (FallingEdge /\ bus.state = "SetI2CAddress" /\ bus.bit_counter = 8
            /\ bus.current_byte % 2 = 1 /\ bus.device_address = <<>>)
          => bus'.state = "Inactive"
     /\ (bus'.state = "ReadFromDevice" /\ bus.state # "ReadFromDevice")
          => (bus.device_address # <<>> /\ bus'.device_address # <<>>)
     /\ bus'.state = "ReadFromDevice" => bus'.device_address # <<>>]_vars

\* the bus has just entered ReadFromDevice, for a device address written
\* before the repeated start
C33_Witness ==
  /\ bus.state = "ReadFromDevice"
  /\ bus.bit_counter = 0
  /\ bus.device_address # <<>>
  /\ bus.i2c_address # <<>>

====
